---- MODULE Spec2Model ----
(***************************************************************************)
(* OCPI synchronization engine of ev-server (CPO role).                    *)
(*                                                                         *)
(* Part 1: the status-broadcast job.  Several scheduler instances run      *)
(* OCPIPushLocationsTask.processTenant / processOCPIEndpoint on one        *)
(* endpoint record kept in shared storage; the holder of the               *)
(* (endpoint, 'patch-locations') lease runs CpoOCPIClient.sendEVSEStatuses.*)
(* Every await of the code is one atomic step of the model; the steps of   *)
(* different instances, incoming status notifications and the clock        *)
(* interleave freely.                                                      *)
(*                                                                         *)
(* Part 2: the session life cycle of one transaction                       *)
(* (startSession / updateSession / stopSession), and authorizeToken.       *)
(*                                                                         *)
(* Part 3: the token pull (pullTokens) over the partner's pages.           *)
(*                                                                         *)
(* Part 4: the reconciliation sweeps (checkCdrs / checkSessions /          *)
(* checkLocations) and triggerJobs.                                        *)
(***************************************************************************)
EXTENDS Integers, Sequences, FiniteSets, TLC

----------------------------------------------------------------------------
(* Bounds of the model *)

\* The clock runs over 0..MaxTime.
MaxTime == 1

\* Scheduler ticks (runs of processTenant) started, over all instances.
MaxTicks == 2

\* Metering samples received for the transaction.
MaxSamples == 2

\* Remote authorizations cached on the charging station.
MaxAuthorizations == 2

\* Time during which a cached remote authorization is taken as valid.
AuthorizationWindow == 1

\* Transactions in storage.
MaxTransactions == 2

\* Token pages the partner holds, and tokens on one page.
MaxPages == 2

MaxTokens == 2

\* Requests of one run of pullTokens that are followed.
MaxRequests == 3

\* pullTokens is called at midnight (UTC) or at this hour of the day.
CallHour == 12

----------------------------------------------------------------------------
(* Fixed data *)

\* Scheduler instances sharing the backing store.
Instances == {"s1", "s2"}

NoHolder == "none"

\* The location tree returned by OCPIMapping.getAllLocations, flattened in
\* iteration order (for location of locations.result, for evse of
\* location.evses): two locations, L1 with two EVSEs of charge point CP1 and
\* L2 with one EVSE of charge point CP2.  Ids and uids are never empty: they
\* are built from the site id and the charging station id.
EvseList ==
  << [uid |-> "E1", chargeBoxId |-> "CP1", locationId |-> "L1"],
     [uid |-> "E2", chargeBoxId |-> "CP1", locationId |-> "L1"],
     [uid |-> "E3", chargeBoxId |-> "CP2", locationId |-> "L2"] >>

NbEvses == Len(EvseList)

ChargeBoxIDs == {EvseList[k].chargeBoxId : k \in 1..NbEvses}

\* The charge points that report status changes while the job is observed;
\* the connector of the other one keeps its status.
NotifyingChargeBoxes == {"CP1"}

\* What getAllLocations can report, EVSE by EVSE: every connector available,
\* or the first connector of each charge point in use.
LocationStatuses ==
  { <<"AVAILABLE", "AVAILABLE", "AVAILABLE">>,
    <<"CHARGING", "AVAILABLE", "CHARGING">> }

\* How the partner answers the PATCH calls of one sweep, EVSE by EVSE (TRUE:
\* a response with a body; FALSE: a transport error, a rejection or an empty
\* body): all accepted, the partner down, one charge point failing with both
\* or with one of its EVSEs, the other charge point failing.
PartnerAnswers ==
  { <<TRUE, TRUE, TRUE>>, <<FALSE, FALSE, FALSE>>, <<FALSE, FALSE, TRUE>>,
    <<TRUE, FALSE, TRUE>>, <<TRUE, TRUE, FALSE>> }

\* An unset Date field (lastPatchJobOn of an endpoint that never ran the job).
Unset == -1

\* An endpoint without lastPatchJobResult.
NoResult == [present |-> FALSE]

----------------------------------------------------------------------------
(* State of the status-broadcast job *)

VARIABLES
  now,              \* the clock read by new Date()
  lastNotification, \* StatusNotification storage: per charge point, the
                    \* timestamp of its latest status notification (Unset: none)
  dbEndpoint,       \* the endpoint record in OCPIEndpointStorage
  lockHolder,       \* the holder of the (endpoint, 'patch-locations') lease
  ticks,            \* scheduler ticks started so far
  pc,               \* per instance: position in processTenant/processOCPIEndpoint
  ocpiEndpoint,     \* per instance: the endpoint object loaded by processTenant
  ocpiLock,         \* per instance: the lock returned by createOCPIEndpointActionLock
  job,              \* per instance: the locals of sendEVSEStatuses
  patchLog,         \* per instance: the remote EVSE PATCH calls of the current run
  lastCompleted     \* history: start and failed charge points of the most
                    \* recently completed run on the endpoint

pushVars ==
  << now, lastNotification, dbEndpoint, lockHolder, ticks, pc, ocpiEndpoint,
     ocpiLock, job, patchLog, lastCompleted >>

\* State of the session life cycle of one transaction
VARIABLES
  transaction,    \* the Transaction object handed to the client
  lastCall,       \* the last client call: its name, how it ended, what it
                  \* returned and the remote requests it sent
  remoteSessions  \* the sessions the partner holds, in order of creation

sessionVars == << transaction, lastCall, remoteSessions >>

\* State of one run of pullTokens
VARIABLES
  pages,            \* the partner's token pages, by page number
  pullPc,           \* position of the run: idle, in the loop, returned, failed
  tokensUrl,        \* the local variable tokensUrl
  tokenResult,      \* the local variable sendResult
  requests,         \* the URLs requested so far, in order
  updateTokenCalls, \* the calls of OCPITokensService.updateToken so far
  calledAt,         \* history: the time at which pullTokens was called
  pageAnswer        \* history: the partner's answer to the last GET

tokenVars ==
  << pages, pullPc, tokensUrl, tokenResult, requests, updateTokenCalls,
     calledAt, pageAnswer >>

\* The arguments of authorizeToken
VARIABLES
  chargingStation,  \* the charging station at which a token is presented
  ocpiToken         \* the uid of the token presented

authVars == << chargingStation, ocpiToken >>

\* State of the reconciliation sweeps and of triggerJobs
VARIABLES
  transactions,  \* TransactionStorage: the transactions, by id
  lastJob,       \* the last sweep: its name, its result, the items it
                 \* checked and the remote requests it sent
  trigger,       \* the run of triggerJobs: position, job events, results
  remoteCdrs     \* the partner's CDR store: the ids of the transactions
                 \* whose CDR it holds

sweepVars == << transactions, lastJob, trigger, remoteCdrs >>

vars == << pushVars, sessionVars, tokenVars, authVars, sweepVars >>

----------------------------------------------------------------------------
(* Helpers *)

\* Array.prototype.includes
Includes(s, x) == \E k \in 1..Len(s) : s[k] = x

\* _.uniq keeps the first occurrence of every element.
RECURSIVE Uniq(_)
Uniq(s) ==
  IF s = <<>> THEN <<>>
  ELSE LET front == Uniq(SubSeq(s, 1, Len(s) - 1))
           last == s[Len(s)]
       IN IF Includes(front, last) THEN front ELSE Append(front, last)

\* A set as a list, in some fixed order.
RECURSIVE SetToSeq(_)
SetToSeq(S) ==
  IF S = {} THEN <<>>
  ELSE LET x == CHOOSE y \in S : TRUE IN <<x>> \o SetToSeq(S \ {x})

Range(s) == {s[k] : k \in 1..Len(s)}

NoDuplicates(s) == \A a, b \in 1..Len(s) : s[a] = s[b] => a = b

\* new Date()
NewDate == now

----------------------------------------------------------------------------
(* Storage and lock coordinator (collaborators outside the sources) *)

\* OCPPStorage.getStatusNotifications(tenant, { dateFrom }): the charge box
\* ids of the notifications recorded at or after dateFrom.  Several
\* notifications of one charge point give its id several times; the caller
\* removes duplicates and only tests membership, so one entry per charge
\* point is kept here.
getStatusNotifications(stored, dateFrom) ==
  SetToSeq({cp \in ChargeBoxIDs : stored[cp] # Unset /\ stored[cp] >= dateFrom})

\* LockingHelper.createOCPIEndpointActionLock: the lease when nobody holds
\* it, null otherwise; it never waits.
LockAvailable == lockHolder = NoHolder

----------------------------------------------------------------------------
(* OCPIPushLocationsTask.processOCPIEndpoint *)

\* Faulty variant: the body runs whether or not a lease was obtained.
LeaseIgnored(lock) == TRUE

\* if (ocpiLock) { ... }
LeaseGranted(lock) == lock

\* The two early returns inside the try block.
EndpointSkipped(ep) ==
  \/ ep.status # "REGISTERED"
  \/ ~ep.backgroundPatchJob

\* Faulty variant: the release sits at the end of the try block instead of
\* in finally, so an exception leaves without it.
ExitWithoutFinally(how) ==
  CASE how = "return" -> "skipped"
    [] how = "exception" -> "done"
    [] how = "completion" -> "returned"

\* try { ... } catch { log } finally { release }: the try block is left by
\* a "return", by an "exception" (caught and logged) or by "completion";
\* each way leads into the finally block.
Exit(how) ==
  CASE how = "return" -> "skipped"
    [] how = "exception" -> "failed"
    [] how = "completion" -> "returned"

InFinally == {"skipped", "failed", "returned"}

----------------------------------------------------------------------------
(* CpoOCPIClient.sendEVSEStatuses *)

EmptySendResult ==
  [ success |-> 0, failure |-> 0, total |-> 0,
    chargeBoxIDsInFailure |-> <<>>, chargeBoxIDsInSuccess |-> <<>> ]

NoJob ==
  [ processAllEVSEs |-> TRUE, startDate |-> Unset,
    chargeBoxIDsToProcess |-> <<>>, locations |-> <<>>,
    sendResult |-> EmptySendResult ]

\* No endpoint object (before processTenant has loaded one).
NoEndpoint ==
  [ status |-> "", backgroundPatchJob |-> FALSE, lastPatchJobOn |-> Unset,
    lastPatchJobResult |-> NoResult ]

getChargeBoxIDsInFailure(ep) ==
  IF ep.lastPatchJobResult.present
  THEN ep.lastPatchJobResult.chargeBoxIDsInFailure
  ELSE <<>>

\* Faulty variant: an endpoint that never ran the job is given the beginning
\* of time as baseline.
NotificationsSinceEver(ep, stored, at) ==
  LET lastPatchJobOn == IF ep.lastPatchJobOn # Unset THEN ep.lastPatchJobOn ELSE 0
      result == getStatusNotifications(stored, lastPatchJobOn)
  IN IF Len(result) > 0 THEN result ELSE <<>>

\* The two calls of new Date() (startDate, and the default of an unset
\* lastPatchJobOn) happen in the same synchronous stretch: `at` is both.
getChargeBoxIDsWithNewStatusNotifications(ep, stored, at) ==
  LET lastPatchJobOn == IF ep.lastPatchJobOn # Unset THEN ep.lastPatchJobOn ELSE at
      result == getStatusNotifications(stored, lastPatchJobOn)
  IN IF Len(result) > 0 THEN result ELSE <<>>

\* Faulty variant: the failures of the previous run are not taken up again.
ToProcessWithoutFailures(ep, stored, at) ==
  Uniq(getChargeBoxIDsWithNewStatusNotifications(ep, stored, at))

ChargeBoxIDsToProcess(ep, stored, at) ==
  Uniq(getChargeBoxIDsInFailure(ep)
       \o getChargeBoxIDsWithNewStatusNotifications(ep, stored, at))

\* if (!processAllEVSEs && !chargeBoxIDsToProcess.includes(evse.chargeBoxId)) continue
SkipEvse(processAllEVSEs, chargeBoxIDsToProcess, evse) ==
  ~processAllEVSEs /\ ~Includes(chargeBoxIDsToProcess, evse.chargeBoxId)

\* if (evse && location.id && evse.uid)
Processable(evse) == evse.locationId # "" /\ evse.uid # ""

\* patchEVSEStatus: if (!locationId || !evseUID || !newStatus) throw
InvalidParameters(locationId, evseUID, newStatus) ==
  locationId = "" \/ evseUID = "" \/ newStatus = ""

\* The body of the PATCH: { status: newStatus }
PatchPayload(newStatus) == newStatus

\* One iteration of the EVSE loop on EvseList[k].  acc holds sendResult, the
\* PATCH calls made so far and whether the loop was left by an exception.
\* `answered` is the partner's answer to the PATCH (FALSE: transport error,
\* rejected call or empty body); `tenantFails`: TenantStorage.getTenant,
\* awaited outside the try/catch once a failure has been counted, rejects.
ProcessEvse(k, j, acc, answered, tenantFails) ==
  LET evse == EvseList[k]
      status == j.locations[k]
      counted == [acc EXCEPT !.sendResult.total = @ + 1]
      invalid == InvalidParameters(evse.locationId, evse.uid, status)
      ok == ~invalid /\ answered
      called ==
        IF invalid THEN counted
        ELSE [counted EXCEPT !.patchLog =
                Append(@, [uid |-> evse.uid, status |-> PatchPayload(status),
                           ok |-> answered])]
      patched ==
        IF ok
        THEN [called EXCEPT !.sendResult.success = @ + 1,
                            !.sendResult.chargeBoxIDsInSuccess =
                               Append(@, evse.chargeBoxId)]
        ELSE [called EXCEPT !.sendResult.failure = @ + 1,
                            !.sendResult.chargeBoxIDsInFailure =
                               Append(@, evse.chargeBoxId)]
  IN IF SkipEvse(j.processAllEVSEs, j.chargeBoxIDsToProcess, evse) THEN counted
     ELSE IF ~Processable(evse) THEN counted
     ELSE IF patched.sendResult.failure > 0 /\ tenantFails
          THEN [patched EXCEPT !.thrown = TRUE]
          ELSE patched

\* The loops over locations.result and location.evses, from EvseList[k] on.
RECURSIVE Sweep(_, _, _, _, _)
Sweep(k, j, acc, answers, tenantFailAt) ==
  IF k > NbEvses \/ acc.thrown THEN acc
  ELSE Sweep(k + 1, j,
             ProcessEvse(k, j, acc, answers[k], tenantFailAt = k),
             answers, tenantFailAt)

\* Faulty variant: the save is reached even when the loops were left by an
\* exception.
SaveAfterSweep(thrown) == "save"

\* Where sendEVSEStatuses goes on after the loops: to the save, unless an
\* exception left them (and sendEVSEStatuses with them).
AfterSweep(thrown) == IF thrown THEN Exit("exception") ELSE "save"

\* Faulty variant: the time of the save is stored.
DateAtSave(startDate) == NewDate

\* this.ocpiEndpoint.lastPatchJobOn = startDate
LastPatchJobOn(startDate) == startDate

\* Faulty variant: the id lists are stored as collected.
ResultListKept(list) == list

\* _.uniq(sendResult.chargeBoxIDsIn...)
ResultList(list) == Uniq(list)

LastPatchJobResult(sendResult) ==
  [ present |-> TRUE,
    successNbr |-> sendResult.success,
    failureNbr |-> sendResult.failure,
    totalNbr |-> sendResult.total,
    chargeBoxIDsInFailure |-> ResultList(sendResult.chargeBoxIDsInFailure),
    chargeBoxIDsInSuccess |-> ResultList(sendResult.chargeBoxIDsInSuccess) ]

\* The endpoint object as sendEVSEStatuses leaves it before saving.
EndpointToSave(ep, j) ==
  [ep EXCEPT !.lastPatchJobOn = LastPatchJobOn(j.startDate),
             !.lastPatchJobResult = LastPatchJobResult(j.sendResult)]

\* The charge points with a failed PATCH in a list of PATCH calls.
FailedChargeBoxes(log) ==
  {EvseList[k].chargeBoxId : k \in
     {n \in 1..NbEvses :
        \E c \in 1..Len(log) : log[c].uid = EvseList[n].uid /\ ~log[c].ok}}

SucceededChargeBoxes(log) ==
  {EvseList[k].chargeBoxId : k \in
     {n \in 1..NbEvses :
        \E c \in 1..Len(log) : log[c].uid = EvseList[n].uid /\ log[c].ok}}

----------------------------------------------------------------------------
(* Environment: the clock and the charge points *)

Tick ==
  /\ now < MaxTime
  /\ now' = now + 1
  /\ UNCHANGED << sessionVars, tokenVars, authVars, sweepVars >>
  /\ UNCHANGED << lastNotification, dbEndpoint, lockHolder, ticks, pc,
                  ocpiEndpoint, ocpiLock, job, patchLog, lastCompleted >>

\* A charge point reports a status change of one of its connectors; the
\* notification is stored with the current time.
StatusNotification(cp) ==
  /\ lastNotification[cp] # now
  /\ lastNotification' = [lastNotification EXCEPT ![cp] = now]
  /\ UNCHANGED << sessionVars, tokenVars, authVars, sweepVars >>
  /\ UNCHANGED << now, dbEndpoint, lockHolder, ticks, pc, ocpiEndpoint,
                  ocpiLock, job, patchLog, lastCompleted >>

----------------------------------------------------------------------------
(* Steps of one scheduler instance; every await is one step *)

\* processTenant: OCPIEndpointStorage.getOcpiEndpoints loads the endpoint
\* records; the lock is asked for only afterwards, in processOCPIEndpoint.
GetOcpiEndpoints(i) ==
  /\ pc[i] \in {"idle", "done", "yielded"}
  /\ ticks < MaxTicks
  /\ ticks' = ticks + 1
  /\ ocpiEndpoint' = [ocpiEndpoint EXCEPT ![i] = dbEndpoint]
  /\ pc' = [pc EXCEPT ![i] = "loaded"]
  /\ UNCHANGED << sessionVars, tokenVars, authVars, sweepVars >>
  /\ UNCHANGED << now, lastNotification, dbEndpoint, lockHolder, ocpiLock,
                  job, patchLog, lastCompleted >>

\* const ocpiLock = await LockingHelper.createOCPIEndpointActionLock(...);
\* if (ocpiLock) { try ... } -- without the lease the method returns at once
\* ("yielded"); with it, the try block is entered ("locked").
CreateLock(i) ==
  /\ pc[i] = "loaded"
  /\ LET lock == LockAvailable
     IN /\ ocpiLock' = [ocpiLock EXCEPT ![i] = lock]
        /\ lockHolder' = IF lock THEN i ELSE lockHolder
        /\ pc' = [pc EXCEPT ![i] = IF LeaseGranted(lock) THEN "locked" ELSE "yielded"]
        /\ ocpiEndpoint' =
             IF LeaseGranted(lock) THEN ocpiEndpoint
             ELSE [ocpiEndpoint EXCEPT ![i] = NoEndpoint]
  /\ UNCHANGED << sessionVars, tokenVars, authVars, sweepVars >>
  /\ UNCHANGED << now, lastNotification, dbEndpoint, ticks, job, patchLog,
                  lastCompleted >>

\* Inside the try block: an unregistered or inactive endpoint returns.
SkipEndpoint(i) ==
  /\ pc[i] = "locked"
  /\ EndpointSkipped(ocpiEndpoint[i])
  /\ pc' = [pc EXCEPT ![i] = Exit("return")]
  /\ UNCHANGED << sessionVars, tokenVars, authVars, sweepVars >>
  /\ UNCHANGED << now, lastNotification, dbEndpoint, lockHolder, ticks,
                  ocpiEndpoint, ocpiLock, job, patchLog, lastCompleted >>

\* OCPIClientFactory.getCpoOcpiClient throws (settings missing, wrong role).
BuildClientFails(i) ==
  /\ pc[i] = "locked"
  /\ ~EndpointSkipped(ocpiEndpoint[i])
  /\ pc' = [pc EXCEPT ![i] = Exit("exception")]
  /\ UNCHANGED << sessionVars, tokenVars, authVars, sweepVars >>
  /\ UNCHANGED << now, lastNotification, dbEndpoint, lockHolder, ticks,
                  ocpiEndpoint, ocpiLock, job, patchLog, lastCompleted >>

\* The client is built and sendEVSEStatuses(processAllEVSEs) starts: the
\* result is initialised and startDate is captured, up to the first await.
StartSend(i, processAllEVSEs) ==
  /\ pc[i] = "locked"
  /\ ~EndpointSkipped(ocpiEndpoint[i])
  /\ job' = [job EXCEPT ![i] =
               [NoJob EXCEPT !.processAllEVSEs = processAllEVSEs,
                             !.startDate = NewDate]]
  /\ pc' = [pc EXCEPT ![i] = IF processAllEVSEs THEN "locations" ELSE "candidates"]
  /\ UNCHANGED << sessionVars, tokenVars, authVars, sweepVars >>
  /\ UNCHANGED << now, lastNotification, dbEndpoint, lockHolder, ticks,
                  ocpiEndpoint, ocpiLock, patchLog, lastCompleted >>

\* Delta run: chargeBoxIDsToProcess = uniq(failures of the previous run ++
\* charge boxes with new status notifications).
ComputeCandidates(i) ==
  /\ pc[i] = "candidates"
  /\ job' = [job EXCEPT ![i].chargeBoxIDsToProcess =
               ChargeBoxIDsToProcess(ocpiEndpoint[i], lastNotification,
                                     job[i].startDate)]
  /\ pc' = [pc EXCEPT ![i] = "locations"]
  /\ UNCHANGED << sessionVars, tokenVars, authVars, sweepVars >>
  /\ UNCHANGED << now, lastNotification, dbEndpoint, lockHolder, ticks,
                  ocpiEndpoint, ocpiLock, patchLog, lastCompleted >>

\* OCPPStorage.getStatusNotifications rejects: sendEVSEStatuses throws and
\* its locals are gone.
CandidatesFail(i) ==
  /\ pc[i] = "candidates"
  /\ pc' = [pc EXCEPT ![i] = Exit("exception")]
  /\ job' = [job EXCEPT ![i] = NoJob]
  /\ UNCHANGED << sessionVars, tokenVars, authVars, sweepVars >>
  /\ UNCHANGED << now, lastNotification, dbEndpoint, lockHolder, ticks,
                  ocpiEndpoint, ocpiLock, patchLog, lastCompleted >>

\* OCPIMapping.getAllLocations rejects: sendEVSEStatuses throws.
GetAllLocationsFails(i) ==
  /\ pc[i] = "locations"
  /\ pc' = [pc EXCEPT ![i] = Exit("exception")]
  /\ job' = [job EXCEPT ![i] = NoJob]
  /\ UNCHANGED << sessionVars, tokenVars, authVars, sweepVars >>
  /\ UNCHANGED << now, lastNotification, dbEndpoint, lockHolder, ticks,
                  ocpiEndpoint, ocpiLock, patchLog, lastCompleted >>

\* getAllLocations answers with the status of every EVSE, and the loop
\* patches the EVSEs one after the other.  The iterations read and write
\* only locals of the run, so they are taken in one step.  tenantFailAt = 0:
\* getTenant never rejects.
SweepLocations(i, statuses, answers, tenantFailAt) ==
  /\ pc[i] = "locations"
  /\ LET j == [job[i] EXCEPT !.locations = statuses]
         acc == Sweep(1, j,
                      [sendResult |-> j.sendResult, patchLog |-> <<>>,
                       thrown |-> FALSE],
                      answers, tenantFailAt)
     IN /\ (tenantFailAt # 0) => acc.thrown
        /\ job' = [job EXCEPT ![i] =
                     IF acc.thrown THEN NoJob
                     ELSE [j EXCEPT !.sendResult = acc.sendResult]]
        /\ patchLog' = [patchLog EXCEPT ![i] = acc.patchLog]
        /\ pc' = [pc EXCEPT ![i] = AfterSweep(acc.thrown)]
  /\ UNCHANGED << sessionVars, tokenVars, authVars, sweepVars >>
  /\ UNCHANGED << now, lastNotification, dbEndpoint, lockHolder, ticks,
                  ocpiEndpoint, ocpiLock, lastCompleted >>

\* this.ocpiEndpoint.lastPatchJobOn = startDate; ...lastPatchJobResult = ...;
\* await OCPIEndpointStorage.saveOcpiEndpoint(tenant, this.ocpiEndpoint)
SaveOcpiEndpoint(i) ==
  /\ pc[i] = "save"
  /\ LET saved == EndpointToSave(ocpiEndpoint[i], job[i])
     IN /\ ocpiEndpoint' = [ocpiEndpoint EXCEPT ![i] = saved]
        /\ dbEndpoint' = saved
  /\ lastCompleted' =
       [start |-> job[i].startDate, failed |-> FailedChargeBoxes(patchLog[i])]
  /\ pc' = [pc EXCEPT ![i] = Exit("completion")]
  /\ UNCHANGED << sessionVars, tokenVars, authVars, sweepVars >>
  /\ UNCHANGED << now, lastNotification, lockHolder, ticks, ocpiLock, job,
                  patchLog >>

\* finally { await LockingManager.release(ocpiLock) }; processOCPIEndpoint
\* returns and its locals are gone.
ReleaseLock(i) ==
  /\ pc[i] \in InFinally
  /\ lockHolder' = IF ocpiLock[i] /\ lockHolder = i THEN NoHolder ELSE lockHolder
  /\ ocpiLock' = [ocpiLock EXCEPT ![i] = FALSE]
  /\ ocpiEndpoint' = [ocpiEndpoint EXCEPT ![i] = NoEndpoint]
  /\ job' = [job EXCEPT ![i] = NoJob]
  /\ patchLog' = [patchLog EXCEPT ![i] = <<>>]
  /\ pc' = [pc EXCEPT ![i] = "done"]
  /\ UNCHANGED << sessionVars, tokenVars, authVars, sweepVars >>
  /\ UNCHANGED << now, lastNotification, dbEndpoint, ticks, lastCompleted >>

InstanceStep(i) ==
  \/ GetOcpiEndpoints(i)
  \/ CreateLock(i)
  \/ SkipEndpoint(i)
  \/ BuildClientFails(i)
  \/ \E processAllEVSEs \in BOOLEAN : StartSend(i, processAllEVSEs)
  \/ ComputeCandidates(i)
  \/ CandidatesFail(i)
  \/ GetAllLocationsFails(i)
  \/ \E statuses \in LocationStatuses, answers \in PartnerAnswers,
        tenantFailAt \in 0..NbEvses :
       SweepLocations(i, statuses, answers, tenantFailAt)
  \/ SaveOcpiEndpoint(i)
  \/ ReleaseLock(i)

----------------------------------------------------------------------------
(* The status-broadcast job as a whole *)

\* The endpoint has never run the job; it is registered or not, and its
\* background job is switched on or off.
InitialEndpoints ==
  { [status |-> s, backgroundPatchJob |-> b, lastPatchJobOn |-> Unset,
     lastPatchJobResult |-> NoResult] :
       s \in {"REGISTERED", "NEW"}, b \in BOOLEAN }

PushInit ==
  /\ now = 0
  /\ lastNotification = [cp \in ChargeBoxIDs |-> Unset]
  /\ dbEndpoint \in InitialEndpoints
  /\ lockHolder = NoHolder
  /\ ticks = 0
  /\ pc = [i \in Instances |-> "idle"]
  /\ ocpiEndpoint = [i \in Instances |-> NoEndpoint]
  /\ ocpiLock = [i \in Instances |-> FALSE]
  /\ job = [i \in Instances |-> NoJob]
  /\ patchLog = [i \in Instances |-> <<>>]
  /\ lastCompleted = [start |-> dbEndpoint.lastPatchJobOn, failed |-> {}]

PushNext ==
  \/ Tick
  \/ \E cp \in NotifyingChargeBoxes : StatusNotification(cp)
  \/ \E i \in Instances : InstanceStep(i)

----------------------------------------------------------------------------
(* Part 2: the session life cycle of one transaction *)

AuthorizationIds == {"AUTH1", "AUTH2"}

\* How the partner answers a request: status 200 with a body, another 2xx
\* status without body, or a transport error / non-2xx status (axios then
\* rejects and Utils.handleAxiosError throws).
RemoteAnswers == {"200", "204", "error"}

NoSession == [absent |-> TRUE]

NoStop == [absent |-> TRUE]

NoCdr == [absent |-> TRUE]

HasSession(t) == t.ocpiData.session # NoSession

HasCdr(t) == t.ocpiData.cdr # NoCdr

\* Watt-hours per metering sample, and price (in cents) per sample.
WhPerSample == 500

PricePerSample == 25

\* Seconds between two metering samples.
SecsPerSample == 1800

\* A credit granted when the transaction is finalized.
Credit == 30

\* transaction.x / 1000 on a whole number of Wh: the kWh with their
\* thousandths.
DivideBy1000(wh) == [units |-> wh \div 1000, thousandths |-> wh % 1000]

\* OCPIMapping.buildChargingPeriods: one period per metering sample.
buildChargingPeriods(t) ==
  [k \in 1..(t.currentTotalConsumptionWh \div WhPerSample) |->
     [start_date_time |-> t.timestamp + k - 1, volume |-> WhPerSample]]

\* Object fields set by assignment: the fields of upd are added to obj or
\* replace its values.
Assign(obj, upd) == upd @@ obj

\* How a call ended: it threw (error, message), or it returned (`result`:
\* "void" for a method without return value, else the value).
Failure(name, error, message, calls) ==
  [name |-> name, error |-> error, message |-> message, calls |-> calls,
   result |-> "none"]

Returned(name, calls, value) ==
  [name |-> name, error |-> "", message |-> "", calls |-> calls,
   result |-> value]

Success(name, calls) == Returned(name, calls, "void")

\* Faulty variant: the catch block logs the error and goes on.
ErrorSwallowed(answer) == FALSE

\* try { response = await this.axiosInstance... } catch (error) {
\* Utils.handleAxiosError(...) }: axios rejects on a transport failure and on
\* a status outside 2xx, and handleAxiosError throws.
RequestRejected(answer) == answer = "error"

\* The partner's session store (a collaborator outside the sources); of a
\* stored session, the resource id and the status are kept.
\* PUT {sessionsUrl}/.../{id}: create the session, or replace the one with
\* that id.
RemotePut(store, id, body) ==
  LET stored == [id |-> id, status |-> body.status]
  IN IF \E k \in 1..Len(store) : store[k].id = id
     THEN [k \in 1..Len(store) |-> IF store[k].id = id THEN stored ELSE store[k]]
     ELSE Append(store, stored)

\* PATCH {sessionsUrl}/.../{id}: the fields of the body replace those of the
\* session with that id.
RemotePatch(store, id, body) ==
  [k \in 1..Len(store) |->
     IF store[k].id = id THEN [store[k] EXCEPT !.status = body.status]
     ELSE store[k]]

\* --- startSession ---

StartedSession(t, authorizationId) ==
  [ id |-> authorizationId,
    start_datetime |-> t.timestamp,
    kwh |-> DivideBy1000(0),
    total_cost |-> t.currentCumulatedPrice,
    auth_method |-> "AUTH_REQUEST",
    auth_id |-> "TOKEN-AUTH",
    location |-> "LOCATION",
    currency |-> t.priceUnit,
    status |-> "PENDING",
    authorization_id |-> authorizationId,
    last_updated |-> t.timestamp ]

\* Faulty variant: every call addresses a resource of its own.
SessionResourceOfCall(authorizationId) == "NEW"

\* The last segment of sessionsUrl: .../${authorizationId}
SessionResource(authorizationId) == authorizationId

\* transaction.ocpiData = { session: ocpiSession }: the object is replaced,
\* so a cdr or cdrCheckedOn it held is gone.
StartedOcpiData(ocpiSession) ==
  [session |-> ocpiSession, cdr |-> NoCdr, cdrCheckedOn |-> Unset]

\* Faulty variant: the session is put on the transaction before the PUT.
RecordedBeforePut(ocpiData, ocpiSession) == StartedOcpiData(ocpiSession)

\* The throw out of the catch block leaves startSession before the
\* assignment to transaction.ocpiData: the object stays as it was.
OcpiDataAfterThrow(ocpiData, ocpiSession) == ocpiData

\* PUT {sessionsUrl}/{country}/{party}/{authorizationId}; the session is put
\* on the transaction once the PUT has returned (any 2xx status).
StartSession(authorizationId, answer) ==
  /\ UNCHANGED << pushVars, tokenVars, authVars, sweepVars >>
  /\ LET ocpiSession == StartedSession(transaction, authorizationId)
         call == [method |-> "PUT", id |-> SessionResource(authorizationId),
                  body |-> ocpiSession, answer |-> answer]
     IN IF RequestRejected(answer)
        THEN /\ lastCall' = Failure("startSession", "RemoteProtocolError", "", <<call>>)
             /\ transaction' = [transaction EXCEPT !.ocpiData =
                                    OcpiDataAfterThrow(@, ocpiSession)]
             /\ UNCHANGED remoteSessions
        ELSE /\ remoteSessions' = RemotePut(remoteSessions, call.id, call.body)
             /\ transaction' = [transaction EXCEPT !.ocpiData = StartedOcpiData(ocpiSession)]
             /\ lastCall' = Success("startSession", <<call>>)

\* Faulty variant: the session object is put back when the request failed.
RolledBack(before, after, answer) == IF answer = "200" THEN after ELSE before

\* The fields of transaction.ocpiData.session are assigned before the request
\* is sent and nothing assigns them again after it: the session object after
\* the call, whatever its answer.
SessionAfterCall(before, after, answer) == after

\* --- updateSession ---

\* Faulty variant: the check is missing.
NeverChecked(t) == FALSE

\* if (!transaction.ocpiData || !transaction.ocpiData.session) throw ...
SessionNotStarted(t) == ~HasSession(t)

UpdatedSession(t) ==
  Assign(t.ocpiData.session,
         [ kwh |-> DivideBy1000(t.currentTotalConsumptionWh),
           last_updated |-> t.currentTimestamp,
           total_cost |-> t.currentCumulatedPrice,
           currency |-> t.priceUnit,
           status |-> "ACTIVE",
           charging_periods |-> buildChargingPeriods(t) ])

\* Faulty variant: the whole session is sent.
WholeSession(session) == session

PatchBody(session) ==
  [ kwh |-> session.kwh,
    last_updated |-> session.last_updated,
    total_cost |-> session.total_cost,
    currency |-> session.currency,
    status |-> session.status,
    charging_periods |-> session.charging_periods ]

\* A property of an absent object is read: JavaScript throws a TypeError.
\* Only a client without the precondition check gets here.
TypeError(name) ==
  /\ lastCall' = Failure(name, "TypeError", "", <<>>)
  /\ UNCHANGED << transaction, remoteSessions >>

UpdateSession(answer) ==
  /\ UNCHANGED << pushVars, tokenVars, authVars, sweepVars >>
  /\ IF SessionNotStarted(transaction)
     THEN /\ lastCall' = Failure("updateSession", "PreconditionError",
                                 "OCPI Session not started", <<>>)
          /\ UNCHANGED << transaction, remoteSessions >>
     ELSE IF ~HasSession(transaction) THEN TypeError("updateSession")
     ELSE LET session == UpdatedSession(transaction)
              call == [method |-> "PATCH", id |-> session.id,
                       body |-> PatchBody(session), answer |-> answer]
          IN /\ transaction' = [transaction EXCEPT !.ocpiData.session =
                                    SessionAfterCall(@, session, answer)]
             /\ remoteSessions' =
                  IF answer = "error" THEN remoteSessions
                  ELSE RemotePatch(remoteSessions, call.id, call.body)
             /\ lastCall' =
                  IF answer = "200" THEN Success("updateSession", <<call>>)
                  ELSE Failure("updateSession", "RemoteProtocolError", "", <<call>>)

\* --- stopSession ---

\* Faulty variant: the stop record is not asked for.
NoStopCheck(t) == FALSE

\* if (!transaction.stop) throw ...
TransactionNotStopped(t) == t.stop = NoStop

StoppedSession(t) ==
  Assign(t.ocpiData.session,
         [ kwh |-> DivideBy1000(t.stop.totalConsumptionWh),
           total_cost |-> t.stop.roundedPrice,
           end_datetime |-> t.stop.timestamp,
           last_updated |-> t.stop.timestamp,
           status |-> "COMPLETED",
           charging_periods |-> buildChargingPeriods(t) ])

StopSession(answer) ==
  /\ UNCHANGED << pushVars, tokenVars, authVars, sweepVars >>
  /\ IF SessionNotStarted(transaction)
     THEN /\ lastCall' = Failure("stopSession", "PreconditionError",
                                 "OCPI Session not started", <<>>)
          /\ UNCHANGED << transaction, remoteSessions >>
     ELSE IF TransactionNotStopped(transaction)
     THEN /\ lastCall' = Failure("stopSession", "PreconditionError",
                                 "Transaction not stopped", <<>>)
          /\ UNCHANGED << transaction, remoteSessions >>
     ELSE IF ~HasSession(transaction) \/ transaction.stop = NoStop
     THEN TypeError("stopSession")
     ELSE LET session == StoppedSession(transaction)
              call == [method |-> "PUT", id |-> session.id, body |-> session,
                       answer |-> answer]
          IN /\ transaction' = [transaction EXCEPT !.ocpiData.session =
                                    SessionAfterCall(@, session, answer)]
             /\ remoteSessions' =
                  IF answer = "error" THEN remoteSessions
                  ELSE RemotePut(remoteSessions, call.id, call.body)
             /\ lastCall' =
                  IF answer = "200" THEN Success("stopSession", <<call>>)
                  ELSE Failure("stopSession", "RemoteProtocolError", "", <<call>>)

\* --- postCdr ---

\* if (!transaction.ocpiData || !transaction.ocpiData.session) throw ...
CdrSessionNotStarted(t) == ~HasSession(t)

\* if (!transaction.stop) throw ...
CdrTransactionNotStopped(t) == t.stop = NoStop

\* transaction.stop.totalDurationSecs / 3600: the hours with the seconds left.
DivideBy3600(secs) == [hours |-> secs \div 3600, seconds |-> secs % 3600]

\* Faulty variant: the price is taken as it is.
CostUnclamped(roundedPrice) == roundedPrice

\* transaction.stop.roundedPrice > 0 ? transaction.stop.roundedPrice : 0
CdrTotalCost(roundedPrice) == IF roundedPrice > 0 THEN roundedPrice ELSE 0

\* The object assigned to transaction.ocpiData.cdr.
BuiltCdr(t) ==
  [ id |-> t.ocpiData.session.id,
    start_date_time |-> t.timestamp,
    stop_date_time |-> t.stop.timestamp,
    total_parking_time |-> t.stop.totalInactivitySecs,
    total_time |-> DivideBy3600(t.stop.totalDurationSecs),
    total_energy |-> DivideBy1000(t.stop.totalConsumptionWh),
    total_cost |-> CdrTotalCost(t.stop.roundedPrice),
    currency |-> IF t.priceUnit # "" THEN t.priceUnit ELSE "",
    auth_id |-> t.ocpiData.session.auth_id,
    authorization_id |-> t.ocpiData.session.authorization_id,
    auth_method |-> t.ocpiData.session.auth_method,
    location |-> t.ocpiData.session.location,
    charging_periods |-> buildChargingPeriods(t),
    last_updated |-> t.stop.timestamp ]

NoBody == [absent |-> TRUE]

\* POST {cdrsUrl} with the CDR, which is put on the transaction before the
\* request is sent.
PostCdr(answer) ==
  /\ UNCHANGED << pushVars, tokenVars, authVars, sweepVars >>
  /\ UNCHANGED remoteSessions
  /\ IF CdrSessionNotStarted(transaction)
     THEN /\ lastCall' = Failure("postCdr", "PreconditionError",
                                 "Session not started", <<>>)
          /\ UNCHANGED transaction
     ELSE IF CdrTransactionNotStopped(transaction)
     THEN /\ lastCall' = Failure("postCdr", "PreconditionError",
                                 "Transaction not stopped", <<>>)
          /\ UNCHANGED transaction
     ELSE LET cdr == BuiltCdr(transaction)
              call == [method |-> "POST", id |-> "", body |-> cdr,
                       answer |-> answer]
          IN /\ transaction' = [transaction EXCEPT !.ocpiData.cdr = cdr]
             /\ lastCall' =
                  IF answer = "200" THEN Success("postCdr", <<call>>)
                  ELSE Failure("postCdr", "RemoteProtocolError", "", <<call>>)

\* --- checkCdr ---

\* What a body of the answer to GET {cdrsUrl}/{id} can carry: status_code
\* 3001, a CDR in data, or neither.
CdrResponseBodies == {"3001", "cdr", "other"}

\* if (!transaction.ocpiData || !transaction.ocpiData.cdr) throw ...
CdrMissing(t) == ~HasCdr(t)

\* GET {cdrsUrl}/{cdr.id}; on status_code 3001 the CDR is posted again, and
\* that POST is awaited outside any try/catch: `resubmission` is its answer.
CheckCdr(answer, body, resubmission) ==
  /\ UNCHANGED << pushVars, tokenVars, authVars, sweepVars >>
  /\ UNCHANGED remoteSessions
  /\ IF CdrMissing(transaction)
     THEN /\ lastCall' = Failure("checkCdr", "PreconditionError",
                                 "ocpi data are missing", <<>>)
          /\ UNCHANGED transaction
     ELSE LET cdr == transaction.ocpiData.cdr
              get == [method |-> "GET", id |-> cdr.id, body |-> NoBody,
                      answer |-> answer]
              post == [method |-> "POST", id |-> "", body |-> cdr,
                       answer |-> resubmission]
          IN IF answer = "error"
             THEN /\ lastCall' = Failure("checkCdr", "RemoteProtocolError", "", <<get>>)
                  /\ UNCHANGED transaction
             ELSE IF answer = "200" /\ body = "3001"
             THEN /\ lastCall' =
                       IF resubmission = "error"
                       THEN Failure("checkCdr", "AxiosError", "", <<get, post>>)
                       ELSE Returned("checkCdr", <<get, post>>, FALSE)
                  /\ UNCHANGED transaction
             ELSE IF answer = "200" /\ body = "cdr"
             THEN /\ transaction' = [transaction EXCEPT !.ocpiData.cdrCheckedOn = NewDate]
                  /\ lastCall' = Returned("checkCdr", <<get>>, TRUE)
             ELSE /\ lastCall' = Failure("checkCdr", "RemoteProtocolError",
                                         "Invalid response from Check cdr", <<get>>)
                  /\ UNCHANGED transaction

\* --- authorizeToken ---

Tags == {"TAG1", "TAG2"}

\* The times at which a cached remote authorization was issued: long enough
\* ago to be expired from the start, or at the start.
AuthorizationTimes == {0 - AuthorizationWindow, 0}

\* OCPIUtils.isAuthorizationValid(timestamp): the authorization was issued
\* less than the freshness window ago.
isAuthorizationValid(timestamp) == now - timestamp < AuthorizationWindow

\* chargingStation.remoteAuthorizations
RECURSIVE RemoteAuthorizationLists(_)
RemoteAuthorizationLists(n) ==
  IF n = 0 THEN {<<>>}
  ELSE LET shorter == RemoteAuthorizationLists(n - 1)
       IN shorter \cup
          {Append(l, a) : l \in {x \in shorter : Len(x) = n - 1},
                          a \in [tagId : Tags, id : AuthorizationIds,
                                 timestamp : AuthorizationTimes]}

NoSiteArea == [absent |-> TRUE]

\* The charging stations a token can be presented at: with or without an
\* attached site area, with any cached remote authorizations.
ChargingStations ==
  [ id : {"CS1"}, siteAreaID : {"SA1"},
    siteArea : {NoSiteArea, [siteID |-> "SITE1"]},
    remoteAuthorizations : RemoteAuthorizationLists(MaxAuthorizations) ]

\* SiteAreaStorage.getSiteArea(tenant, siteAreaID)
getSiteArea(siteAreaID) == [siteID |-> "SITE1"]

\* Faulty variant: the tag of the cached authorization is not looked at.
ValidForAnyToken(remoteAuthorization, uid) ==
  isAuthorizationValid(remoteAuthorization.timestamp)

\* remoteAuthorization.tagId === token.uid &&
\* OCPIUtils.isAuthorizationValid(remoteAuthorization.timestamp)
MatchesToken(remoteAuthorization, uid) ==
  /\ remoteAuthorization.tagId = uid
  /\ isAuthorizationValid(remoteAuthorization.timestamp)

\* The loop over chargingStation.remoteAuthorizations: the index of the
\* first authorization that is returned, 0 when the loop ends without.
FirstMatch(remoteAuthorizations, uid) ==
  LET matches == {k \in 1..Len(remoteAuthorizations) :
                    MatchesToken(remoteAuthorizations[k], uid)}
  IN IF matches = {} THEN 0
     ELSE CHOOSE k \in matches : \A m \in matches : k <= m

\* The siteID of the payload: that of the attached site area, or that of the
\* site area loaded from storage.
SiteIdOf(station) ==
  IF station.siteArea = NoSiteArea
  THEN getSiteArea(station.siteAreaID).siteID
  ELSE station.siteArea.siteID

NoInfo == [absent |-> TRUE]

\* response.data.data of the authorize POST: absent, or an authorization
\* info that allows or not, with or without authorization_id.
AuthorizationInfos ==
  {NoInfo} \cup [allowed : {"ALLOWED", "NOT_ALLOWED"},
                 authorization_id : {"", "AUTH2"}]

\* Faulty variant: the id is returned whatever `allowed` says.
AllowedUnchecked(info) == TRUE

\* authorizationInfo.allowed !== OCPIAllowed.ALLOWED throws
Allowed(info) == info.allowed = "ALLOWED"

\* authorizeToken(token, chargingStation): a valid cached authorization of
\* the token is returned at once; otherwise POST {tokensUrl}/{uid}/authorize
\* and the checks of the response.  The token is authorized before the
\* session of the transaction is started.
AuthorizeToken(answer, info) ==
  /\ ~HasSession(transaction)
  /\ transaction.stop = NoStop
  /\ UNCHANGED << pushVars, tokenVars, authVars, sweepVars >>
  /\ UNCHANGED << transaction, remoteSessions >>
  /\ LET cached == FirstMatch(chargingStation.remoteAuthorizations, ocpiToken)
         call == [method |-> "POST", id |-> ocpiToken,
                  body |-> [location_id |-> SiteIdOf(chargingStation),
                            evse_uids |-> <<chargingStation.id>>],
                  answer |-> answer, data |-> info]
     IN lastCall' =
          IF cached # 0
          THEN Returned("authorizeToken", <<>>,
                        chargingStation.remoteAuthorizations[cached].id)
          ELSE IF RequestRejected(answer)
          THEN Failure("authorizeToken", "RemoteProtocolError", "", <<call>>)
          ELSE IF answer # "200"
          THEN Failure("authorizeToken", "BackendError",
                       "Post authorize failed", <<call>>)
          ELSE IF info = NoInfo
          THEN Failure("authorizeToken", "BackendError",
                       "Invalid response from Post Authorize", <<call>>)
          ELSE IF ~Allowed(info)
          THEN Failure("authorizeToken", "BackendError",
                       "Authorization rejected", <<call>>)
          ELSE IF info.authorization_id = ""
          THEN Failure("authorizeToken", "BackendError",
                       "Authorization allowed without 'authorization_id'", <<call>>)
          ELSE Returned("authorizeToken", <<call>>, info.authorization_id)

\* What the partner answers to the authorize POST.
AuthorizeAnswers ==
  {<<answer, info>> \in RemoteAnswers \X AuthorizationInfos :
     answer # "200" => info = NoInfo}

\* A token is presented at a charging station without cached authorization.
AuthIdle ==
  /\ chargingStation =
       [id |-> "CS1", siteAreaID |-> "SA1", siteArea |-> NoSiteArea,
        remoteAuthorizations |-> <<>>]
  /\ ocpiToken = "TAG1"

AuthNext ==
  \/ Tick
  \/ \E a \in AuthorizeAnswers : AuthorizeToken(a[1], a[2])

\* --- the charging transaction itself ---

\* A metering sample arrives while the transaction runs.
MeterValues ==
  /\ transaction.stop = NoStop
  /\ transaction.currentTotalConsumptionWh < MaxSamples * WhPerSample
  /\ transaction' =
       [transaction EXCEPT !.currentTotalConsumptionWh = @ + WhPerSample,
                           !.currentCumulatedPrice = @ + PricePerSample,
                           !.currentTimestamp = @ + 1]
  /\ lastCall' = Success("", <<>>)
  /\ UNCHANGED remoteSessions
  /\ UNCHANGED << pushVars, tokenVars, authVars, sweepVars >>

\* The transaction is stopped and finalized; a credit can bring the rounded
\* price to zero or below.
StopTransaction(credit) ==
  /\ transaction.stop = NoStop
  /\ transaction' =
       [transaction EXCEPT !.stop =
          [ timestamp |-> transaction.currentTimestamp + 1,
            totalConsumptionWh |-> transaction.currentTotalConsumptionWh,
            roundedPrice |-> transaction.currentCumulatedPrice - credit,
            totalInactivitySecs |-> 0,
            totalDurationSecs |-> (transaction.currentTimestamp + 1) * SecsPerSample ]]
  /\ lastCall' = Success("", <<>>)
  /\ UNCHANGED remoteSessions
  /\ UNCHANGED << pushVars, tokenVars, authVars, sweepVars >>

NoCall == Success("", <<>>)

SessionInit ==
  /\ transaction =
       [ timestamp |-> 0, currentTimestamp |-> 0,
         currentTotalConsumptionWh |-> 0, currentCumulatedPrice |-> 0,
         priceUnit |-> "EUR", stop |-> NoStop,
         ocpiData |-> [session |-> NoSession, cdr |-> NoCdr,
                       cdrCheckedOn |-> Unset] ]
  /\ lastCall = NoCall
  /\ remoteSessions = <<>>

SessionNext ==
  \/ \E a \in AuthorizeAnswers : AuthorizeToken(a[1], a[2])
  \/ MeterValues
  \/ \E credit \in {0, Credit} : StopTransaction(credit)
  \/ \E a \in AuthorizationIds, answer \in RemoteAnswers : StartSession(a, answer)
  \/ \E answer \in RemoteAnswers : UpdateSession(answer)
  \/ \E answer \in RemoteAnswers : StopSession(answer)
  \/ \E answer \in RemoteAnswers : PostCdr(answer)
  \/ \E answer \in RemoteAnswers :
       \E body \in (IF answer = "200" THEN CdrResponseBodies ELSE {"other"}) :
         \E resubmission \in (IF body = "3001" THEN RemoteAnswers ELSE {"200"}) :
           CheckCdr(answer, body, resubmission)

----------------------------------------------------------------------------
(* Part 3: pullTokens *)

NoUrl == [absent |-> TRUE]

\* Times of pullTokens are counted in hours (UTC).
HoursPerDay == 24

\* limit=100
PageSize == 100

\* The times at which pullTokens is called: at midnight and later that day.
CallTimes == {2 * HoursPerDay, 2 * HoursPerDay + CallHour}

\* moment().utc().subtract(1, 'days').startOf('day'), at time `at`
MomentFrom(at) ==
  LET dayBefore == at - HoursPerDay
  IN dayBefore - (dayBefore % HoursPerDay)

\* this.getEndpointUrl('tokens') with its query: ?date_from=...&limit=100
\* for a partial pull, ?limit=100 otherwise.  It addresses the first page
\* (no offset).
InitialTokensUrl(partial, at) ==
  [page |-> 1,
   query |-> [date_from |-> IF partial THEN MomentFrom(at) ELSE Unset,
              limit |-> PageSize, offset |-> 0]]

\* The page a URL addresses.
PageOf(url) == pages[url.page]

\* The link header of a page says nothing ("none"), repeats the URL it was
\* requested with ("self"), or names the following page ("next").
LinkKinds == {"none", "self", "next"}

\* OCPIUtils.getNextUrl(response.headers.link), for the page fetched at url.
getNextUrl(link, url) ==
  CASE link = "none" -> NoUrl
    [] link = "self" -> url
    [] link = "next" ->
         [page |-> url.page + 1,
          query |-> [url.query EXCEPT !.offset = @ + url.query.limit]]

\* Faulty variant: a link is followed whatever it names.
AnyNextUrl(nextUrl, url) == nextUrl # NoUrl

\* if (nextUrl && nextUrl.length > 0 && nextUrl !== tokensUrl)
FollowNextUrl(nextUrl, url) == nextUrl # NoUrl /\ nextUrl # url

\* Token lists of up to n tokens; of a token, whether
\* OCPITokensService.updateToken succeeds for it.
RECURSIVE TokenLists(_)
TokenLists(n) ==
  IF n = 0 THEN {<<>>}
  ELSE LET shorter == TokenLists(n - 1)
       IN shorter \cup {Append(l, ok) : l \in {x \in shorter : Len(x) = n - 1},
                                        ok \in BOOLEAN}

TokenPages == [tokens : TokenLists(MaxTokens), link : LinkKinds]

\* The pages the partner can hold: every page but the last may carry any
\* link, the last one names no further page.
TokenChains ==
  UNION { { c \in [1..n -> TokenPages] : c[n].link # "next" } : n \in 1..MaxPages }

EmptyPullResult == [success |-> 0, failure |-> 0, total |-> 0, logs |-> <<>>]

\* Faulty variant: the first failure ends the page.
RemainingUntilFailure(tokens, ok) == IF ok THEN Tail(tokens) ELSE <<>>

\* for (const token of response.data.data) { try ... catch ... }: the loop
\* goes on with the next token whether updateToken threw or not.
Remaining(tokens, ok) == Tail(tokens)

\* The token loop on the tokens left of one page; acc holds sendResult and
\* the calls of updateToken.
RECURSIVE UpdateTokens(_, _, _)
UpdateTokens(tokens, page, acc) ==
  IF tokens = <<>> THEN acc
  ELSE LET ok == Head(tokens)
           called == [acc EXCEPT !.calls = Append(@, [page |-> page, ok |-> ok])]
           counted ==
             IF ok
             THEN [called EXCEPT !.result.success = @ + 1,
                                 !.result.logs = Append(@, "successfully updated")]
             ELSE [called EXCEPT !.result.failure = @ + 1,
                                 !.result.logs = Append(@, "Failure updating token")]
       IN UpdateTokens(Remaining(tokens, ok), page, counted)

\* pullTokens(partial), called at time `at`, up to the loop.
PullTokens(partial, at) ==
  /\ pullPc = "idle"
  /\ calledAt' = at
  /\ tokenResult' = EmptyPullResult
  /\ tokensUrl' = InitialTokensUrl(partial, at)
  /\ pullPc' = "loop"
  /\ UNCHANGED << pages, requests, updateTokenCalls, pageAnswer >>
  /\ UNCHANGED << pushVars, sessionVars, authVars, sweepVars >>

\* Faulty variant: an unusable page is passed over and the loop goes on.
PageFailureSkipped == "loop"

\* throw new BackendError(...) / Utils.handleAxiosError(...) inside the
\* while loop, which no try/catch of pullTokens encloses: the run is over.
PageFailure == "failed"

\* One turn of while (nextResult): the GET fails, or its response is not
\* usable, and pullTokens throws; or the tokens of the page are upserted and
\* the link decides whether the loop goes on.
FetchPage(answer) ==
  /\ pullPc = "loop"
  /\ Len(requests) < MaxRequests
  /\ requests' = Append(requests, tokensUrl)
  /\ pageAnswer' = answer
  /\ IF answer # "200"
     THEN /\ pullPc' = PageFailure
          /\ UNCHANGED << tokensUrl, tokenResult, updateTokenCalls >>
     ELSE LET page == PageOf(tokensUrl)
              acc == UpdateTokens(page.tokens, tokensUrl.page,
                                  [result |-> tokenResult, calls |-> updateTokenCalls])
              nextUrl == getNextUrl(page.link, tokensUrl)
          IN /\ tokenResult' = acc.result
             /\ updateTokenCalls' = acc.calls
             /\ IF FollowNextUrl(nextUrl, tokensUrl)
                THEN /\ tokensUrl' = nextUrl
                     /\ pullPc' = "loop"
                ELSE /\ pullPc' = "returned"
                     /\ UNCHANGED tokensUrl
  /\ UNCHANGED << pages, calledAt >>
  /\ UNCHANGED << pushVars, sessionVars, authVars, sweepVars >>

\* What the partner answers to the GET of a page: 200 with a list of tokens,
\* a status other than 200 or no body, a body without data, a transport
\* error.
TokenAnswers == {"200", "204", "nodata", "error"}

TokenStart ==
  /\ pullPc = "idle"
  /\ tokensUrl = NoUrl
  /\ tokenResult = EmptyPullResult
  /\ requests = <<>>
  /\ updateTokenCalls = <<>>
  /\ calledAt = Unset
  /\ pageAnswer = "none"

TokenNext ==
  \/ \E partial \in BOOLEAN, at \in CallTimes : PullTokens(partial, at)
  \/ \E answer \in TokenAnswers : FetchPage(answer)

----------------------------------------------------------------------------
(* Part 4: the reconciliation sweeps and triggerJobs *)

\* A stored transaction: stopped or not, with or without OCPI session and
\* CDR, checked or not.
TransactionKinds ==
  { [stopped |-> FALSE, session |-> TRUE, cdr |-> FALSE],
    [stopped |-> TRUE, session |-> TRUE, cdr |-> TRUE],
    [stopped |-> TRUE, session |-> TRUE, cdr |-> FALSE],
    [stopped |-> TRUE, session |-> FALSE, cdr |-> FALSE] }

StoredTransaction(kind) ==
  [ stopped |-> kind.stopped, session |-> kind.session, cdr |-> kind.cdr,
    cdrCheckedOn |-> Unset, sessionCheckedOn |-> Unset ]

\* The stores: transaction k has id k.
TransactionStores ==
  UNION { [1..n -> {StoredTransaction(kind) : kind \in TransactionKinds}] :
            n \in 0..MaxTransactions }

\* TransactionStorage.getTransactions(tenant, { issuer: true,
\* ocpiCdrChecked: false }): the ids, in storage order.
CdrNotChecked(store) ==
  SelectSeq([k \in 1..Len(store) |-> k],
            LAMBDA k : store[k].cdrCheckedOn = Unset)

\* TransactionStorage.getTransactions(tenant, { issuer: true,
\* ocpiSessionChecked: false }): the ids, in storage order.
SessionNotChecked(store) ==
  SelectSeq([k \in 1..Len(store) |-> k],
            LAMBDA k : store[k].sessionCheckedOn = Unset)

\* The locations of OCPIMapping.getAllLocations.
LocationIds == Uniq([k \in 1..NbEvses |-> EvseList[k].locationId])

EmptyJobResult ==
  [ success |-> 0, failure |-> 0, total |-> 0, logs |-> <<>>,
    objectIDsInFailure |-> <<>>, objectIDsInSuccess |-> <<>> ]

\* try { if (await this.check...(item)) { success } else { failure } }
\* catch (error) { failure, log }: what the outcome of one check ("true",
\* "false", "throw") makes of the result.
Counted(result, id, outcome) ==
  CASE outcome = "true" ->
         [result EXCEPT !.success = @ + 1,
                        !.objectIDsInSuccess = Append(@, id)]
    [] outcome = "false" ->
         [result EXCEPT !.failure = @ + 1,
                        !.objectIDsInFailure = Append(@, id)]
    [] outcome = "throw" ->
         [result EXCEPT !.failure = @ + 1,
                        !.objectIDsInFailure = Append(@, id),
                        !.logs = Append(@, id)]

\* result.total++
Totalled(result) == [result EXCEPT !.total = @ + 1]

\* What the partner answers to GET {cdrsUrl}/{id}: the CDR, status_code 3001
\* (the CDR is then posted again, and that POST succeeds or fails), a body
\* without CDR, or a transport error.
CdrAnswers == {"cdr", "3001", "3001, POST fails", "invalid", "error"}

\* if (response.data.status_code === 3001) await this.axiosInstance.post(
\* cdrsUrl, transaction.ocpiData.cdr, ...)
Resubmits(answer) == answer \in {"3001", "3001, POST fails"}

\* Faulty variant: a CDR that was posted again counts as confirmed.
ResubmissionConfirms(t, answer) ==
  IF ~t.cdr THEN "throw"
  ELSE CASE answer \in {"cdr", "3001"} -> "true"
         [] OTHER -> "throw"

\* checkCdr(transaction) as the sweep sees it.
checkCdr(t, answer) ==
  IF ~t.cdr THEN "throw"
  ELSE CASE answer = "cdr" -> "true"
         [] answer = "3001" -> "false"
         [] OTHER -> "throw"

\* What the partner answers to GET {sessionsUrl}/.../{id}.
SessionAnswers == {"session", "invalid", "error"}

\* checkSession(transaction) as the sweep sees it.
checkSession(t, answer) ==
  IF ~t.session THEN "throw"
  ELSE IF answer = "session" THEN "true" ELSE "throw"

\* What the partner answers to GET {locationsUrl}/.../{id}.
LocationAnswers == {"location", "invalid", "error"}

\* checkLocation(location)
checkLocation(answer) == IF answer = "location" THEN "true" ELSE "throw"

\* The state of a sweep before its loop.
SweepStart(store) ==
  [result |-> EmptyJobResult, checked |-> <<>>, requests |-> <<>>,
   posts |-> <<>>, store |-> store]

\* checkCdrs: the loop over transactions.result, from item k on.
RECURSIVE CheckCdrsLoop(_, _, _, _)
CheckCdrsLoop(items, k, acc, answers) ==
  IF k > Len(items) THEN acc
  ELSE LET id == items[k]
           t == acc.store[id]
           outcome == checkCdr(t, answers[k])
           checked ==
             [acc EXCEPT !.checked = Append(@, id),
                         !.requests = IF t.cdr THEN Append(@, id) ELSE @,
                         !.posts = IF t.cdr /\ Resubmits(answers[k])
                                   THEN Append(@, id) ELSE @,
                         !.store[id].cdrCheckedOn =
                            IF outcome = "true" THEN NewDate ELSE @,
                         !.result = Counted(@, id, outcome)]
       IN CheckCdrsLoop(items, k + 1,
                        [checked EXCEPT !.result = Totalled(@)], answers)

\* Faulty variant: the sweep checks running transactions as well.
StopIgnored(t) == TRUE

\* if (transaction.stop && transaction.stop.timestamp)
Stopped(t) == t.stopped

\* checkSessions: the loop over transactions.result, from item k on.
RECURSIVE CheckSessionsLoop(_, _, _, _)
CheckSessionsLoop(items, k, acc, answers) ==
  IF k > Len(items) THEN acc
  ELSE LET id == items[k]
           t == acc.store[id]
           outcome == checkSession(t, answers[k])
           checked ==
             [acc EXCEPT !.checked = Append(@, id),
                         !.requests = IF t.session THEN Append(@, id) ELSE @,
                         !.store[id].sessionCheckedOn =
                            IF outcome = "true" THEN NewDate ELSE @,
                         !.result = Counted(@, id, outcome)]
           done == IF Stopped(t) THEN checked ELSE acc
       IN CheckSessionsLoop(items, k + 1,
                            [done EXCEPT !.result = Totalled(@)], answers)

\* checkLocations: the loop over locations.result, from item k on.
RECURSIVE CheckLocationsLoop(_, _, _, _)
CheckLocationsLoop(items, k, acc, answers) ==
  IF k > Len(items) THEN acc
  ELSE LET id == items[k]
           checked ==
             [acc EXCEPT !.checked = Append(@, id),
                         !.requests = Append(@, id),
                         !.result = Counted(@, id, checkLocation(answers[k]))]
       IN CheckLocationsLoop(items, k + 1,
                             [checked EXCEPT !.result = Totalled(@)], answers)

\* What a sweep leaves behind.
JobDone(name, acc) ==
  [name |-> name, result |-> acc.result, checked |-> acc.checked,
   requests |-> acc.requests, posts |-> acc.posts]

\* checkCdrs() against the partner's answers, item by item.
CdrsSwept(answers) ==
  CheckCdrsLoop(CdrNotChecked(transactions), 1,
                SweepStart(transactions), answers)

CheckSessionsSwept(answers) ==
  CheckSessionsLoop(SessionNotChecked(transactions), 1,
                    SweepStart(transactions), answers)

LocationsSwept(answers) ==
  CheckLocationsLoop(LocationIds, 1, SweepStart(transactions), answers)

NoTrigger == [pc |-> "idle", running |-> "none", events |-> <<>>, results |-> <<>>]

NoSweep == JobDone("", SweepStart(<<>>))

\* A sweep is called on its own (no run of triggerJobs is under way).
CheckCdrs(answers) ==
  /\ trigger = NoTrigger
  /\ LET acc == CdrsSwept(answers)
     IN /\ transactions' = acc.store
        /\ lastJob' = JobDone("checkCdrs", acc)
  /\ UNCHANGED trigger
  /\ UNCHANGED << pushVars, sessionVars, tokenVars, authVars >>
  /\ UNCHANGED remoteCdrs

CheckSessions(answers) ==
  /\ trigger = NoTrigger
  /\ LET acc == CheckSessionsSwept(answers)
     IN /\ transactions' = acc.store
        /\ lastJob' = JobDone("checkSessions", acc)
  /\ UNCHANGED trigger
  /\ UNCHANGED << pushVars, sessionVars, tokenVars, authVars >>
  /\ UNCHANGED remoteCdrs

CheckLocations(answers) ==
  /\ trigger = NoTrigger
  /\ lastJob' = JobDone("checkLocations", LocationsSwept(answers))
  /\ UNCHANGED << transactions, trigger >>
  /\ UNCHANGED << pushVars, sessionVars, tokenVars, authVars >>
  /\ UNCHANGED remoteCdrs

\* --- triggerJobs ---

\* Faulty variant: the sweeps are run before the token pull and the status
\* broadcast.
SweepsFirst == << "cdrs", "sessions", "tokens", "locations" >>

\* The properties of the object literal returned by triggerJobs, in the
\* order in which their values are evaluated.
JobOrder == << "tokens", "locations", "cdrs", "sessions" >>

\* The call behind each property.
JobCall(jobName) ==
  CASE jobName = "tokens" -> [method |-> "pullTokens", argument |-> "false"]
    [] jobName = "locations" -> [method |-> "sendEVSEStatuses", argument |-> "default"]
    [] jobName = "cdrs" -> [method |-> "checkCdrs", argument |-> "none"]
    [] jobName = "sessions" -> [method |-> "checkSessions", argument |-> "none"]

\* sendEVSEStatuses(processAllEVSEs = true)
DefaultProcessAllEVSEs == TRUE

\* pullTokens(partial) as a whole, from the request of `url` on; request
\* number failAt is not answered with a usable page and pullTokens throws.
RECURSIVE PullPages(_, _, _)
PullPages(url, acc, failAt) ==
  LET requested == [acc EXCEPT !.requests = Append(@, url)]
  IN IF Len(requested.requests) = failAt
     THEN [requested EXCEPT !.thrown = TRUE]
     ELSE LET page == PageOf(url)
              upserted == UpdateTokens(page.tokens, url.page,
                                       [result |-> acc.result, calls |-> acc.calls])
              nextUrl == getNextUrl(page.link, url)
              next == [requested EXCEPT !.result = upserted.result,
                                        !.calls = upserted.calls]
          IN IF FollowNextUrl(nextUrl, url)
             THEN PullPages(nextUrl, next, failAt)
             ELSE next

\* triggerJobs() is called; its run is observed on a store that no sweep
\* has touched yet.
TriggerJobs ==
  /\ trigger = NoTrigger
  /\ lastJob = NoSweep
  /\ trigger' = [NoTrigger EXCEPT !.pc = "running"]
  /\ UNCHANGED << transactions, lastJob >>
  /\ UNCHANGED << pushVars, sessionVars, tokenVars, authVars >>
  /\ UNCHANGED remoteCdrs

\* The value of the next property is evaluated: its job is called.  The
\* await of the previous property has ended before.
StartJob ==
  /\ trigger.pc = "running"
  /\ trigger.running = "none"
  /\ Len(trigger.results) < Len(JobOrder)
  /\ LET jobName == JobOrder[Len(trigger.results) + 1]
     IN trigger' =
          [trigger EXCEPT !.running = jobName,
                          !.events = Append(@, [kind |-> "call", job |-> jobName,
                                                call |-> JobCall(jobName)])]
  /\ UNCHANGED << transactions, lastJob >>
  /\ UNCHANGED << pushVars, sessionVars, tokenVars, authVars >>
  /\ UNCHANGED remoteCdrs

\* The job has returned `result`: the await ends and the property is set.
JobReturned(jobName, result) ==
  [trigger EXCEPT !.running = "none",
                  !.results = Append(@, [job |-> jobName, result |-> result]),
                  !.events = Append(@, [kind |-> "return", job |-> jobName,
                                        call |-> JobCall(jobName)])]

\* The job has thrown: triggerJobs rejects.
JobThrew(jobName) ==
  [trigger EXCEPT !.running = "none", !.pc = "failed",
                  !.events = Append(@, [kind |-> "throw", job |-> jobName,
                                        call |-> JobCall(jobName)])]

\* await this.pullTokens(false)
TokensJob(at, failAt) ==
  /\ trigger.running = "tokens"
  /\ failAt <= Len(pages)
  /\ LET run == PullPages(InitialTokensUrl(FALSE, at),
                          [result |-> EmptyPullResult, calls |-> <<>>,
                           requests |-> <<>>, thrown |-> FALSE],
                          failAt)
     IN /\ (failAt # 0) => run.thrown
        /\ calledAt' = at
        /\ requests' = run.requests
        /\ updateTokenCalls' = run.calls
        /\ tokenResult' = run.result
        /\ tokensUrl' = run.requests[Len(run.requests)]
        /\ pullPc' = IF run.thrown THEN PageFailure ELSE "returned"
        /\ pageAnswer' = IF run.thrown THEN "error" ELSE "200"
        /\ trigger' = IF run.thrown THEN JobThrew("tokens")
                      ELSE JobReturned("tokens", run.result)
  /\ UNCHANGED pages
  /\ UNCHANGED << transactions, lastJob >>
  /\ UNCHANGED << pushVars, sessionVars, authVars >>
  /\ UNCHANGED remoteCdrs

\* await this.sendEVSEStatuses(): a full run on the endpoint of the client,
\* which saves the endpoint unless an exception ended it.
LocationsJob(statuses, answers, tenantFailAt) ==
  /\ trigger.running = "locations"
  /\ LET j == [NoJob EXCEPT !.processAllEVSEs = DefaultProcessAllEVSEs,
                            !.startDate = NewDate,
                            !.locations = statuses]
         acc == Sweep(1, j,
                      [sendResult |-> j.sendResult, patchLog |-> <<>>,
                       thrown |-> FALSE],
                      answers, tenantFailAt)
     IN /\ (tenantFailAt # 0) => acc.thrown
        /\ dbEndpoint' =
             IF acc.thrown THEN dbEndpoint
             ELSE EndpointToSave(dbEndpoint, [j EXCEPT !.sendResult = acc.sendResult])
        /\ lastCompleted' =
             IF acc.thrown THEN lastCompleted
             ELSE [start |-> j.startDate, failed |-> FailedChargeBoxes(acc.patchLog)]
        /\ trigger' = IF acc.thrown THEN JobThrew("locations")
                      ELSE JobReturned("locations", acc.sendResult)
  /\ UNCHANGED << now, lastNotification, lockHolder, ticks, pc, ocpiEndpoint,
                  ocpiLock, job, patchLog >>
  /\ UNCHANGED << transactions, lastJob >>
  /\ UNCHANGED << sessionVars, tokenVars, authVars >>
  /\ UNCHANGED remoteCdrs

\* await this.checkCdrs()
CdrsJob(answers) ==
  /\ trigger.running = "cdrs"
  /\ LET acc == CdrsSwept(answers)
     IN /\ transactions' = acc.store
        /\ lastJob' = JobDone("checkCdrs", acc)
        /\ trigger' = JobReturned("cdrs", acc.result)
  /\ UNCHANGED << pushVars, sessionVars, tokenVars, authVars >>
  /\ UNCHANGED remoteCdrs

\* await this.checkSessions(); the object is complete and returned.
SessionsJob(answers) ==
  /\ trigger.running = "sessions"
  /\ LET acc == CheckSessionsSwept(answers)
     IN /\ transactions' = acc.store
        /\ lastJob' = JobDone("checkSessions", acc)
        /\ trigger' = [JobReturned("sessions", acc.result) EXCEPT !.pc = "returned"]
  /\ UNCHANGED << pushVars, sessionVars, tokenVars, authVars >>
  /\ UNCHANGED remoteCdrs

\* Nothing is stored and no job has run.
SweepIdle ==
  /\ transactions = <<>>
  /\ lastJob = NoSweep
  /\ trigger = NoTrigger
  /\ remoteCdrs = {}

\* The partner's answers to the checks of a sweep over at most n items.
AnswersFor(n, Answers) == [1..n -> Answers]

\* --- checkCdrs against the partner's CDR store ---

\* How a check of one item goes on the wire: the requests get through, the
\* resubmitting POST is rejected, or the GET fails (a transport error or an
\* answer that is not usable: checkCdr throws either way).
Transports == {"ok", "POST fails", "error"}

\* The partner answers GET {cdrsUrl}/{id} with the CDR when it holds it and
\* with status_code 3001 when it does not.
PartnerCdrAnswer(id, transport) ==
  CASE transport = "error" -> "error"
    [] OTHER -> IF id \in remoteCdrs THEN "cdr"
                ELSE IF transport = "POST fails" THEN "3001, POST fails"
                ELSE "3001"

PartnerCdrAnswers(items, transport) ==
  [k \in 1..MaxTransactions |->
     IF k <= Len(items) THEN PartnerCdrAnswer(items[k], transport[k])
     ELSE "error"]

\* The CDRs the partner has accepted from the resubmissions of a sweep.
AcceptedCdrs(items, answers, store) ==
  {items[k] : k \in {n \in 1..Len(items) :
                       store[items[n]].cdr /\ answers[n] = "3001"}}

\* A run of checkCdrs whose answers come from the partner's store; the
\* partner keeps the CDRs it holds and those it accepts.
ReconcileCdrs(transport) ==
  /\ trigger = NoTrigger
  /\ LET items == CdrNotChecked(transactions)
         answers == PartnerCdrAnswers(items, transport)
     IN \E acc \in {CdrsSwept(answers)} :
          /\ transactions' = acc.store
          /\ lastJob' = JobDone("checkCdrs", acc)
          /\ remoteCdrs' = remoteCdrs \cup AcceptedCdrs(items, answers, transactions)
  /\ UNCHANGED trigger
  /\ UNCHANGED << pushVars, sessionVars, tokenVars, authVars >>

\* A run of checkCdrs in which every request gets through.
ConfirmingSweep == ReconcileCdrs([k \in 1..MaxTransactions |-> "ok"])

CdrNext ==
  \/ Tick
  \/ \E transport \in AnswersFor(MaxTransactions, Transports) : ReconcileCdrs(transport)

JobsNext ==
  \/ \E answers \in AnswersFor(MaxTransactions, CdrAnswers) : CheckCdrs(answers)
  \/ \E answers \in AnswersFor(MaxTransactions, SessionAnswers) : CheckSessions(answers)
  \/ \E answers \in AnswersFor(Len(LocationIds), LocationAnswers) : CheckLocations(answers)
  \/ TriggerJobs
  \/ StartJob
  \/ \E at \in CallTimes, failAt \in 0..MaxPages : TokensJob(at, failAt)
  \/ \E statuses \in LocationStatuses, answers \in PartnerAnswers,
        tenantFailAt \in 0..NbEvses :
       LocationsJob(statuses, answers, tenantFailAt)
  \/ \E answers \in AnswersFor(MaxTransactions, CdrAnswers) : CdrsJob(answers)
  \/ \E answers \in AnswersFor(MaxTransactions, SessionAnswers) : SessionsJob(answers)

----------------------------------------------------------------------------
(* Specifications *)

Init ==
  PushInit /\ SessionInit /\ TokenStart /\ pages = <<>> /\ AuthIdle /\ SweepIdle

\* The status-broadcast job, with the transaction left alone.
Next == PushNext

Spec == Init /\ [][Next]_vars

\* The session life cycle, with the status-broadcast job left alone.
SessionSpecInit ==
  /\ Init
  /\ dbEndpoint.status = "REGISTERED"
  /\ dbEndpoint.backgroundPatchJob

SessionSpec == SessionSpecInit /\ [][SessionNext]_vars

\* One run of pullTokens against every chain of pages, with the rest left
\* alone.
TokenSpecInit ==
  /\ PushInit
  /\ dbEndpoint.status = "REGISTERED"
  /\ dbEndpoint.backgroundPatchJob
  /\ SessionInit
  /\ TokenStart
  /\ pages \in TokenChains
  /\ AuthIdle
  /\ SweepIdle

TokenSpec == TokenSpecInit /\ [][TokenNext]_vars

\* authorizeToken for every token, charging station and time.
AuthSpecInit ==
  /\ PushInit
  /\ dbEndpoint.status = "REGISTERED"
  /\ dbEndpoint.backgroundPatchJob
  /\ SessionInit
  /\ TokenStart
  /\ pages = <<>>
  /\ chargingStation \in ChargingStations
  /\ ocpiToken \in Tags
  /\ SweepIdle

AuthSpec == AuthSpecInit /\ [][AuthNext]_vars

\* The partner's token pages while triggerJobs is observed: two pages, the
\* first with a token whose upsert fails.
TriggerPages ==
  << [tokens |-> << TRUE, FALSE >>, link |-> "next"],
     [tokens |-> << TRUE >>, link |-> "none"] >>

\* The sweeps and triggerJobs over every store of transactions.
JobsSpecInit ==
  /\ PushInit
  /\ dbEndpoint.status = "REGISTERED"
  /\ dbEndpoint.backgroundPatchJob
  /\ SessionInit
  /\ TokenStart
  /\ pages = TriggerPages
  /\ AuthIdle
  /\ transactions \in TransactionStores
  /\ lastJob = NoSweep
  /\ trigger = NoTrigger
  /\ remoteCdrs = {}

JobsSpec == JobsSpecInit /\ [][JobsNext]_vars

\* The stores of stopped transactions with a session, whose CDR has been
\* built or not.
StoppedTransactionStores ==
  {store \in TransactionStores :
     \A id \in 1..Len(store) : store[id].stopped /\ store[id].session}

\* The periodic CDR sweep against a partner that holds the CDRs of some of
\* the transactions.  The sweep comes back again and again, and in some of
\* its runs the requests get through.
CdrSpecInit ==
  /\ PushInit
  /\ dbEndpoint.status = "REGISTERED"
  /\ dbEndpoint.backgroundPatchJob
  /\ SessionInit
  /\ TokenStart
  /\ pages = <<>>
  /\ AuthIdle
  /\ transactions \in StoppedTransactionStores
  /\ lastJob = NoSweep
  /\ trigger = NoTrigger
  /\ remoteCdrs \in SUBSET {id \in 1..Len(transactions) : transactions[id].cdr}

CdrSpec ==
  /\ CdrSpecInit
  /\ [][CdrNext]_vars
  /\ WF_vars(ConfirmingSweep)

----------------------------------------------------------------------------
(* Properties of the status-broadcast job *)

\* The positions inside sendEVSEStatuses.
InsideSendEVSEStatuses == {"candidates", "locations", "save"}

\* Instance i asks for the lease in this step and gets none.
LeaseDenied(i) == pc[i] = "loaded" /\ pc'[i] # "loaded" /\ ~LockAvailable

\* C1: of the scheduler instances racing for one endpoint, at most one is
\* inside sendEVSEStatuses at any time; only the holder of the lease sends
\* remote PATCH calls or writes the endpoint; an instance that gets no lease
\* returns in that same step, without waiting, and has called and written
\* nothing.
C1_LockExclusivity ==
  /\ [](Cardinality({i \in Instances : pc[i] \in InsideSendEVSEStatuses}) <= 1)
  /\ [](\A i \in Instances :
          (lockHolder # i \/ pc[i] = "yielded") => patchLog[i] = <<>>)
  /\ [][dbEndpoint' # dbEndpoint =>
          \E i \in Instances : lockHolder = i /\ pc[i] = "save"]_vars
  /\ [][\A i \in Instances :
          LeaseDenied(i) =>
            /\ pc'[i] = "yielded"
            /\ patchLog' = patchLog
            /\ dbEndpoint' = dbEndpoint
            /\ lockHolder' = lockHolder]_vars

\* One instance was refused the lease while the other one, holding it, has
\* sent PATCH calls and is about to save.
C1_Witness ==
  \E i, j \in Instances :
    /\ pc[i] = "save" /\ lockHolder = i /\ patchLog[i] # <<>>
    /\ pc[j] = "yielded"

\* C2: a lease obtained by processOCPIEndpoint is released on every way out
\* (early return, exception, completion): no instance is outside the
\* try/finally of processOCPIEndpoint (idle, loading, yielded or done) while
\* it holds the lease.
C2_LeaseReleased ==
  \A i \in Instances :
    pc[i] \in {"idle", "loaded", "yielded", "done"} => lockHolder # i

\* A run whose sendEVSEStatuses threw has ended and the lease is free again.
C2_Witness ==
  \E i \in Instances :
    /\ pc[i] = "done" /\ lockHolder = NoHolder
    /\ dbEndpoint.status = "REGISTERED" /\ dbEndpoint.backgroundPatchJob
    /\ dbEndpoint.lastPatchJobOn = Unset
    /\ ticks = 1

\* C3 (as claimed): a run that is about to compute its candidates holds the
\* lastPatchJobOn and lastPatchJobResult that are persisted, i.e. those of
\* the most recently completed run.
C3_ReadsPersistedValues ==
  \A i \in Instances :
    pc[i] = "candidates" =>
      /\ ocpiEndpoint[i].lastPatchJobOn = dbEndpoint.lastPatchJobOn
      /\ ocpiEndpoint[i].lastPatchJobResult = dbEndpoint.lastPatchJobResult

\* The charge points with a notification stored at or after `since`.
NotifiedSince(since) ==
  {cp \in ChargeBoxIDs : lastNotification[cp] # Unset /\ lastNotification[cp] >= since}

\* The failure list of an endpoint object, as a set.
PreviousFailures(ep) ==
  IF ep.lastPatchJobResult.present
  THEN Range(ep.lastPatchJobResult.chargeBoxIDsInFailure)
  ELSE {}

\* Instance i computes its candidate set in this step.
ComputesCandidates(i) == pc[i] = "candidates" /\ pc'[i] = "locations"

PatchedEvses(log) == {log[c].uid : c \in 1..Len(log)}

EvsesOf(cps) == {EvseList[k].uid : k \in {n \in 1..NbEvses : EvseList[n].chargeBoxId \in cps}}

\* C4: in a delta run the candidates are the charge points of the failure
\* list of the endpoint's lastPatchJobResult together with those notified
\* since its lastPatchJobOn (since the start of the run when it never ran),
\* and once the sweep is over a PATCH was attempted for exactly the EVSEs of
\* the candidates.
C4_DeltaCandidates ==
  /\ [][\A i \in Instances :
          ComputesCandidates(i) =>
            Range(job'[i].chargeBoxIDsToProcess) =
              PreviousFailures(ocpiEndpoint[i])
              \cup NotifiedSince(IF ocpiEndpoint[i].lastPatchJobOn # Unset
                                 THEN ocpiEndpoint[i].lastPatchJobOn
                                 ELSE job[i].startDate)]_vars
  /\ [](\A i \in Instances :
          (pc[i] = "save" /\ ~job[i].processAllEVSEs) =>
            PatchedEvses(patchLog[i]) = EvsesOf(Range(job[i].chargeBoxIDsToProcess)))

\* A delta run whose only candidate is the charge point that failed before
\* has patched the EVSE of that charge point and no other.
C4_Witness ==
  \E i \in Instances :
    /\ pc[i] = "save" /\ ~job[i].processAllEVSEs
    /\ getChargeBoxIDsInFailure(ocpiEndpoint[i]) = <<"CP2">>
    /\ job[i].chargeBoxIDsToProcess = <<"CP2">>
    /\ PatchedEvses(patchLog[i]) = {"E3"}
    /\ job[i].sendResult.total = NbEvses

\* C5 (as claimed): the candidates of a delta run contain every charge point
\* that failed in the most recently completed run and every charge point
\* notified at or after the start of that run.
C5_NothingDropped ==
  [][\A i \in Instances :
       (ComputesCandidates(i) /\ lastCompleted.start # Unset) =>
         (lastCompleted.failed \cup NotifiedSince(lastCompleted.start))
           \subseteq Range(job'[i].chargeBoxIDsToProcess)]_vars

\* Instance i saves the endpoint in this step.
Saves(i) == pc[i] = "save" /\ pc'[i] = "returned"

\* C6: startDate is the time at which sendEVSEStatuses starts, before any
\* PATCH; a completed run stores it as lastPatchJobOn; no EVSE is patched
\* twice in a run; in a delta run every charge point notified at or after
\* the previous lastPatchJobOn is a candidate, and every EVSE of a candidate
\* is patched exactly once, with the status the location tree gives it.
C6_RunTimestampAndSinglePatch ==
  /\ [][\A i \in Instances :
          (pc[i] = "locked" /\ pc'[i] \in {"candidates", "locations"}) =>
            job'[i].startDate = now /\ patchLog'[i] = <<>>]_vars
  /\ [][\A i \in Instances :
          Saves(i) => dbEndpoint'.lastPatchJobOn = job[i].startDate]_vars
  /\ [][\A i \in Instances :
          (ComputesCandidates(i) /\ ocpiEndpoint[i].lastPatchJobOn # Unset) =>
            NotifiedSince(ocpiEndpoint[i].lastPatchJobOn)
              \subseteq Range(job'[i].chargeBoxIDsToProcess)]_vars
  /\ [](\A i \in Instances :
          pc[i] \in {"save", "returned"} =>
            /\ \A a, b \in 1..Len(patchLog[i]) :
                 patchLog[i][a].uid = patchLog[i][b].uid => a = b
            /\ ~job[i].processAllEVSEs =>
                 \A k \in 1..NbEvses :
                   Includes(job[i].chargeBoxIDsToProcess, EvseList[k].chargeBoxId) =>
                     \E c \in 1..Len(patchLog[i]) :
                       /\ patchLog[i][c].uid = EvseList[k].uid
                       /\ patchLog[i][c].status = job[i].locations[k])

\* A delta run started at time 1 has patched E1, whose charge point was
\* notified, to CHARGING, and has stored its start time.
C6_Witness ==
  \E i \in Instances :
    /\ pc[i] = "returned" /\ ~job[i].processAllEVSEs
    /\ job[i].startDate = 1 /\ dbEndpoint.lastPatchJobOn = 1
    /\ lastNotification["CP1"] # Unset
    /\ \E c \in 1..Len(patchLog[i]) :
         patchLog[i][c] = [uid |-> "E1", status |-> "CHARGING", ok |-> TRUE]
    /\ ticks = 2

CountOk(log, ok) == Cardinality({c \in 1..Len(log) : log[c].ok = ok})

\* C7: once a run has completed, the persisted lastPatchJobResult holds the
\* numbers of successful and failed PATCH calls and of EVSEs swept, and its
\* two id lists are free of duplicates and hold exactly the charge points
\* with a failed, respectively a successful, PATCH of this run.
C7_PersistedJobResult ==
  \A i \in Instances :
    pc[i] = "returned" =>
      LET r == dbEndpoint.lastPatchJobResult
      IN /\ r.present
         /\ r.successNbr = CountOk(patchLog[i], TRUE)
         /\ r.failureNbr = CountOk(patchLog[i], FALSE)
         /\ r.totalNbr = NbEvses
         /\ NoDuplicates(r.chargeBoxIDsInFailure)
         /\ NoDuplicates(r.chargeBoxIDsInSuccess)
         /\ Range(r.chargeBoxIDsInFailure) = FailedChargeBoxes(patchLog[i])
         /\ Range(r.chargeBoxIDsInSuccess) = SucceededChargeBoxes(patchLog[i])

\* Both EVSEs of CP1 failed and the EVSE of CP2 succeeded: CP1 is stored once.
C7_Witness ==
  \E i \in Instances :
    /\ pc[i] = "returned"
    /\ dbEndpoint.lastPatchJobResult.present
    /\ dbEndpoint.lastPatchJobResult.failureNbr = 2
    /\ dbEndpoint.lastPatchJobResult.successNbr = 1
    /\ dbEndpoint.lastPatchJobResult.chargeBoxIDsInFailure = <<"CP1">>
    /\ dbEndpoint.lastPatchJobResult.chargeBoxIDsInSuccess = <<"CP2">>

----------------------------------------------------------------------------
(* Properties of the session life cycle *)

\* C8: updateSession and stopSession on a transaction without a session end
\* with a precondition error, send nothing and leave the transaction as it
\* was.
C8_NoSessionNoUpdate ==
  [][(~HasSession(transaction) /\ lastCall'.name \in {"updateSession", "stopSession"}) =>
       /\ lastCall'.error = "PreconditionError"
       /\ lastCall'.calls = <<>>
       /\ transaction' = transaction]_vars

\* stopSession was refused on a stopped transaction whose only startSession
\* has not succeeded.
C8_Witness ==
  /\ ~HasSession(transaction)
  /\ transaction.stop # NoStop
  /\ lastCall.name = "stopSession"
  /\ lastCall.error = "PreconditionError"
  /\ lastCall.message = "OCPI Session not started"

SessionRank(status) ==
  CASE status = "PENDING" -> 1
    [] status = "ACTIVE" -> 2
    [] status = "COMPLETED" -> 3

\* C9 (as claimed): the status of the session never moves backwards along
\* PENDING -> ACTIVE -> COMPLETED.
C9_StatusOnlyForward ==
  [][(HasSession(transaction) /\ HasSession(transaction')) =>
       SessionRank(transaction'.ocpiData.session.status)
         >= SessionRank(transaction.ocpiData.session.status)]_vars

SessionFields ==
  { "id", "start_datetime", "kwh", "total_cost", "auth_method", "auth_id",
    "location", "currency", "status", "authorization_id", "last_updated",
    "charging_periods", "end_datetime" }

\* C10: stopSession on a transaction with a session: without a stop record
\* it ends with a precondition error, sends nothing and changes nothing;
\* with one, the session becomes COMPLETED with the end time, energy and cost
\* of the stop record, and one PUT carries the whole session.
C10_StopSession ==
  [][(HasSession(transaction) /\ lastCall'.name = "stopSession") =>
       IF transaction.stop = NoStop
       THEN /\ lastCall'.error = "PreconditionError"
            /\ lastCall'.calls = <<>>
            /\ transaction' = transaction
       ELSE LET session == transaction'.ocpiData.session
            IN /\ session.status = "COMPLETED"
               /\ session.end_datetime = transaction.stop.timestamp
               /\ session.kwh = DivideBy1000(transaction.stop.totalConsumptionWh)
               /\ session.total_cost = transaction.stop.roundedPrice
               /\ Len(lastCall'.calls) = 1
               /\ lastCall'.calls[1].method = "PUT"
               /\ lastCall'.calls[1].id = session.id
               /\ lastCall'.calls[1].body = session
               /\ DOMAIN lastCall'.calls[1].body = SessionFields]_vars

\* A session that has metered energy was completed by stopSession.
C10_Witness ==
  /\ lastCall.name = "stopSession"
  /\ lastCall.error = ""
  /\ HasSession(transaction)
  /\ transaction.ocpiData.session.status = "COMPLETED"
  /\ transaction.ocpiData.session.kwh = DivideBy1000(WhPerSample)
  /\ lastCall.calls[1].method = "PUT"

\* The fields updateSession recomputes.
UpdatedFields ==
  {"kwh", "last_updated", "total_cost", "currency", "status", "charging_periods"}

\* C11: an updateSession that succeeds leaves the session ACTIVE and sends
\* one PATCH whose body has the six recomputed fields and no other; every
\* other field of the session (id, start time, authorization fields,
\* location) is neither sent nor changed.
C11_PartialUpdate ==
  [][(lastCall'.name = "updateSession" /\ lastCall'.error = "") =>
       LET before == transaction.ocpiData.session
           after == transaction'.ocpiData.session
           body == lastCall'.calls[1].body
       IN /\ after.status = "ACTIVE"
          /\ Len(lastCall'.calls) = 1
          /\ lastCall'.calls[1].method = "PATCH"
          /\ DOMAIN body = UpdatedFields
          /\ \A f \in UpdatedFields : body[f] = after[f]
          /\ DOMAIN after \ UpdatedFields = DOMAIN before \ UpdatedFields
          /\ \A f \in DOMAIN before \ UpdatedFields : after[f] = before[f]]_vars

\* updateSession has succeeded on a session with metered energy.
C11_Witness ==
  /\ lastCall.name = "updateSession"
  /\ lastCall.error = ""
  /\ transaction.ocpiData.session.status = "ACTIVE"
  /\ transaction.ocpiData.session.kwh = DivideBy1000(WhPerSample)
  /\ lastCall.calls[1].method = "PATCH"

\* C12 (as claimed): after a startSession that succeeds, the session on the
\* transaction, which is the one sent, is PENDING with zero energy and zero
\* total cost.
C12_StartsAtZero ==
  [][(lastCall'.name = "startSession" /\ lastCall'.error = "") =>
       LET session == transaction'.ocpiData.session
       IN /\ session.status = "PENDING"
          /\ session.kwh = DivideBy1000(0)
          /\ session.total_cost = 0
          /\ lastCall'.calls[1].body = session]_vars

\* The sessions the partner holds under one id.
RemoteSessionsWithId(store, id) == {k \in 1..Len(store) : store[k].id = id}

\* C13: a startSession for an authorization id under which the transaction
\* already holds a session sends a PUT to the resource of that id; when it
\* succeeds or fails the transaction keeps a session with that id, and the
\* partner holds exactly one session with that id.
C13_IdempotentStart ==
  [][\A a \in AuthorizationIds :
       ( /\ HasSession(transaction)
         /\ transaction.ocpiData.session.id = a
         /\ lastCall'.name = "startSession"
         /\ lastCall'.calls[1].body.authorization_id = a ) =>
           /\ Len(lastCall'.calls) = 1
           /\ lastCall'.calls[1].method = "PUT"
           /\ lastCall'.calls[1].id = a
           /\ HasSession(transaction')
           /\ transaction'.ocpiData.session.id = a
           /\ Cardinality(RemoteSessionsWithId(remoteSessions', a)) = 1]_vars

\* startSession has succeeded again for the first authorization id, after a
\* session under another id was started in between.
C13_Witness ==
  /\ lastCall.name = "startSession"
  /\ lastCall.error = ""
  /\ lastCall.calls[1].id = "AUTH1"
  /\ HasSession(transaction)
  /\ transaction.ocpiData.session.id = "AUTH1"
  /\ Len(remoteSessions) = 2
  /\ remoteSessions[1].id = "AUTH1"

\* C14 (as claimed): checkCdr ends in one of three ways.  The CDR is posted
\* again (which the code does on status code 3001 only): then it is posted
\* once, false is returned and nothing is raised.  Or true is returned and
\* the checked timestamp is set.  Or an error is raised, with no checked
\* timestamp set.
C14_ThreeOutcomes ==
  [][lastCall'.name = "checkCdr" =>
       LET posts == {k \in 1..Len(lastCall'.calls) : lastCall'.calls[k].method = "POST"}
       IN \/ /\ Cardinality(posts) = 1
             /\ lastCall'.error = ""
             /\ lastCall'.result = FALSE
             /\ transaction' = transaction
          \/ /\ posts = {}
             /\ lastCall'.error = ""
             /\ lastCall'.result = TRUE
             /\ transaction'.ocpiData.cdrCheckedOn # Unset
          \/ /\ posts = {}
             /\ lastCall'.error # ""
             /\ transaction' = transaction]_vars

\* C15 (as claimed): postCdr on a transaction without session, with a session
\* that is not COMPLETED, or without stop record raises a precondition error
\* before any remote call and creates no CDR.
C15_CdrOnlyWhenCompleted ==
  [][( /\ lastCall'.name = "postCdr"
       /\ \/ ~HasSession(transaction)
          \/ transaction.stop = NoStop
          \/ transaction.ocpiData.session.status # "COMPLETED" ) =>
         /\ lastCall'.error = "PreconditionError"
         /\ lastCall'.calls = <<>>
         /\ transaction' = transaction]_vars

\* The cost a CDR may carry for a rounded price.
CostFloored(cost, roundedPrice) ==
  /\ cost >= 0
  /\ roundedPrice > 0 => cost = roundedPrice
  /\ roundedPrice <= 0 => cost = 0

\* C16: the CDR that postCdr builds and posts, and the CDR a transaction
\* holds, has a total cost that is never negative: the rounded price of the
\* stop record when that is positive, and 0 otherwise.
C16_CostNeverNegative ==
  /\ [](HasCdr(transaction) =>
          CostFloored(transaction.ocpiData.cdr.total_cost,
                      transaction.stop.roundedPrice))
  /\ [][(lastCall'.name = "postCdr" /\ lastCall'.calls # <<>>) =>
          /\ lastCall'.calls[1].method = "POST"
          /\ lastCall'.calls[1].body = transaction'.ocpiData.cdr
          /\ CostFloored(lastCall'.calls[1].body.total_cost,
                         transaction.stop.roundedPrice)]_vars

\* A CDR was posted for a transaction whose rounded price is negative.
C16_Witness ==
  /\ lastCall.name = "postCdr"
  /\ lastCall.error = ""
  /\ HasCdr(transaction)
  /\ transaction.stop.roundedPrice < 0
  /\ transaction.ocpiData.cdr.total_cost = 0

\* C17 (as claimed): once the transaction holds a CDR, no operation changes
\* a field of it.
C17_CdrImmutable ==
  [][HasCdr(transaction) =>
       /\ HasCdr(transaction')
       /\ transaction'.ocpiData.cdr = transaction.ocpiData.cdr]_vars

----------------------------------------------------------------------------
(* pullTokens *)

\* The chain of pages: page 1 and every page reached by "next" links, up to
\* the first page whose link names no further page.
ChainLength ==
  CHOOSE n \in 1..Len(pages) :
    /\ pages[n].link # "next"
    /\ \A k \in 1..(n - 1) : pages[k].link = "next"

\* The pages whose tokens the run has received: every request but one that
\* made pullTokens throw.
PagesReceived ==
  IF pullPc = "failed" THEN Len(requests) - 1 ELSE Len(requests)

\* The calls of updateToken that the tokens of pages 1..n ask for, in order.
RECURSIVE CallsFor(_)
CallsFor(n) ==
  IF n = 0 THEN <<>>
  ELSE CallsFor(n - 1) \o
       [k \in 1..Len(pages[n].tokens) |-> [page |-> n, ok |-> pages[n].tokens[k]]]

TokensReceived == Len(CallsFor(PagesReceived))

FailuresReceived ==
  Cardinality({k \in 1..TokensReceived : ~CallsFor(PagesReceived)[k].ok})

\* C18: for any finite chain of token pages, pullTokens requests each page
\* exactly once and in chain order (the k-th request is for page k, the first
\* with the initial URL), every turn of the loop makes one request, no run
\* makes more requests than the chain has pages, and a run that returns has
\* stopped after the first page whose link is absent or equal to the URL
\* just fetched.
C18_EachPageOnceInOrder ==
  /\ [](/\ Len(requests) <= ChainLength
        /\ \A k \in 1..Len(requests) : requests[k].page = k
        /\ (requests # <<>> =>
              requests[1] \in {InitialTokensUrl(partial, calledAt) : partial \in BOOLEAN})
        /\ (pullPc = "loop" => Len(requests) < MaxRequests)
        /\ (pullPc = "returned" => Len(requests) = ChainLength))
  /\ [][pullPc = "loop" =>
          /\ requests' = Append(requests, tokensUrl)
          /\ pullPc' \in {"loop", "returned", "failed"}
          /\ (pullPc' = "loop" => tokensUrl' # tokensUrl)]_vars

\* A run over two pages has returned; the second page repeated its own URL
\* as the next link.
C18_Witness ==
  /\ pullPc = "returned"
  /\ Len(pages) = 2
  /\ pages[1].link = "next"
  /\ pages[2].link = "self"
  /\ Len(requests) = 2

\* C19: a token whose upsert fails counts one failure and one log line and
\* stops nothing: updateToken is called for every token of every page
\* received, in order, failure is the number of those that failed, success
\* the number of the others, the log has one line per token, and whether the
\* following page is fetched depends on the link alone.
C19_FailureDoesNotStop ==
  /\ [](/\ updateTokenCalls = CallsFor(PagesReceived)
        /\ tokenResult.failure = FailuresReceived
        /\ tokenResult.success + tokenResult.failure = TokensReceived
        /\ Len(tokenResult.logs) = TokensReceived
        /\ \A k \in 1..TokensReceived :
             (tokenResult.logs[k] = "Failure updating token") = ~updateTokenCalls[k].ok)
  /\ [][pullPc = "loop" /\ pullPc' # "failed" =>
          (pullPc' = "loop") = (PageOf(tokensUrl).link = "next")]_vars

\* A run has returned after two pages; on the first, the upsert of the first
\* token failed and the second token was upserted all the same.
C19_Witness ==
  /\ pullPc = "returned"
  /\ Len(requests) = 2
  /\ pages[1].tokens = << FALSE, TRUE >>
  /\ tokenResult.failure >= 1
  /\ tokenResult.success >= 1
  /\ Len(updateTokenCalls) >= 2

\* C20: the result returned by pullTokens has total = number of tokens
\* considered over all pages, and success + failure <= total.
C20_TotalCountsTokens ==
  pullPc = "returned" =>
    /\ tokenResult.total = TokensReceived
    /\ tokenResult.success + tokenResult.failure <= tokenResult.total

----------------------------------------------------------------------------
(* Further properties of the status-broadcast job *)

\* C23 (as claimed): the operator notification is best-effort, so a run of
\* sendEVSEStatuses that has sent a PATCH goes on to the end of the sweep and
\* to the save of the job result and lastPatchJobOn, whatever happens while
\* the notification is prepared and dispatched.
C23_NotificationBestEffort ==
  [][\A i \in Instances :
       (pc[i] = "locations" /\ pc'[i] # "locations" /\ patchLog'[i] # <<>>) =>
         /\ pc'[i] = "save"
         /\ job'[i].sendResult.total = NbEvses]_vars

\* The run of instance i has never pushed before, as far as the endpoint
\* object it works on tells.
NeverRan(i) ==
  /\ ocpiEndpoint[i].lastPatchJobOn = Unset
  /\ ~ocpiEndpoint[i].lastPatchJobResult.present

\* C29: the persisted lastPatchJobOn and lastPatchJobResult change only in
\* the save that ends a completed sweep, which stores the start date of the
\* run and the result over all EVSEs; a run saves at most once; a run that
\* ends with an exception (candidates, location tree or tenant lookup) leaves
\* the persisted endpoint as it was.
C29_SingleSaveAfterSweep ==
  /\ [][dbEndpoint' # dbEndpoint =>
          \E i \in Instances :
            /\ Saves(i)
            /\ job[i].startDate # Unset
            /\ job[i].sendResult.total = NbEvses
            /\ dbEndpoint'.lastPatchJobOn = job[i].startDate
            /\ dbEndpoint'.lastPatchJobResult = LastPatchJobResult(job[i].sendResult)]_vars
  /\ [][\A i \in Instances :
          pc[i] = "returned" => (pc'[i] \in {"returned", "done"} /\ ~Saves(i))]_vars
  /\ [][\A i \in Instances :
          (pc[i] \in {"candidates", "locations"} /\ pc'[i] = "failed") =>
            /\ dbEndpoint' = dbEndpoint
            /\ ocpiEndpoint'[i] = ocpiEndpoint[i]]_vars
  /\ [](\A i \in Instances :
          pc[i] = "failed" => dbEndpoint.lastPatchJobOn = lastCompleted.start)

\* After a completed run with failures, a second run has sent PATCH calls
\* and was then ended by an exception; the result of the first run is still
\* the persisted one.
C29_Witness ==
  \E i \in Instances :
    /\ pc[i] = "failed"
    /\ patchLog[i] # <<>>
    /\ dbEndpoint.lastPatchJobOn # Unset
    /\ dbEndpoint.lastPatchJobResult.present
    /\ dbEndpoint.lastPatchJobResult.failureNbr > 0

\* The charge point of the EVSE with a given uid.
ChargeBoxOf(uid) ==
  EvseList[CHOOSE k \in 1..NbEvses : EvseList[k].uid = uid].chargeBoxId

\* C30: a delta run on an endpoint that never ran the job takes the charge
\* points notified at or after its own start as candidates, so it patches no
\* EVSE whose charge point was last notified before the run (or never); it
\* counts every EVSE in total and stores its start date as lastPatchJobOn.
C30_FirstDeltaRun ==
  /\ [][\A i \in Instances :
          (ComputesCandidates(i) /\ NeverRan(i)) =>
            Range(job'[i].chargeBoxIDsToProcess) = NotifiedSince(job[i].startDate)]_vars
  /\ [](\A i \in Instances :
          (pc[i] = "save" /\ ~job[i].processAllEVSEs /\ NeverRan(i)) =>
            /\ \A c \in 1..Len(patchLog[i]) :
                 LET cp == ChargeBoxOf(patchLog[i][c].uid)
                 IN lastNotification[cp] # Unset
                    /\ lastNotification[cp] >= job[i].startDate
            /\ job[i].sendResult.total = NbEvses)
  /\ [][\A i \in Instances :
          (Saves(i) /\ ~job[i].processAllEVSEs /\ NeverRan(i)) =>
            dbEndpoint'.lastPatchJobOn = job[i].startDate]_vars

\* A first delta run started at time 1; CP1 was notified at time 0; the run
\* has swept all EVSEs and patched none.
C30_Witness ==
  \E i \in Instances :
    /\ pc[i] = "save" /\ ~job[i].processAllEVSEs /\ NeverRan(i)
    /\ job[i].startDate = 1
    /\ lastNotification["CP1"] = 0
    /\ patchLog[i] = <<>>
    /\ job[i].sendResult.total = NbEvses

----------------------------------------------------------------------------
(* The first page of pullTokens *)

\* C28 (as claimed): the first request of a partial pull carries a date_from
\* that is exactly 24 hours before the time of the call, whatever that time
\* is; a full pull carries none; both carry the same page size.
C28_DateFromOneDayBefore ==
  requests # <<>> =>
    LET query == requests[1].query
    IN /\ query.limit = PageSize
       /\ query.date_from \in {Unset, calledAt - HoursPerDay}

----------------------------------------------------------------------------
(* Properties of authorizeToken and of the remote calls *)

\* The cached authorizations of the charging station that carry the token
\* presented and are within their freshness window.
FreshAuthorizations ==
  {k \in 1..Len(chargingStation.remoteAuthorizations) :
     LET a == chargingStation.remoteAuthorizations[k]
     IN a.tagId = ocpiToken /\ now - a.timestamp < AuthorizationWindow}

\* C25: a call of authorizeToken sends nothing and returns the id of the
\* (first) cached authorization of the presented token that is within its
\* freshness window when there is one; when no cached authorization matches
\* the token, or every match is expired, it sends exactly one authorize POST,
\* for that token.
C25_CachedAuthorization ==
  [][(lastCall'.name = "authorizeToken" /\ now' = now) =>
       IF FreshAuthorizations # {}
       THEN /\ lastCall'.calls = <<>>
            /\ lastCall'.error = ""
            /\ \E k \in FreshAuthorizations :
                 /\ \A m \in FreshAuthorizations : k <= m
                 /\ lastCall'.result = chargingStation.remoteAuthorizations[k].id
       ELSE /\ Len(lastCall'.calls) = 1
            /\ lastCall'.calls[1].method = "POST"
            /\ lastCall'.calls[1].id = ocpiToken]_vars

\* TAG1 is presented at a station that holds an expired and a fresh
\* authorization of TAG1: the id of the fresh one came back without a call.
C25_Witness ==
  /\ lastCall.name = "authorizeToken"
  /\ lastCall.calls = <<>>
  /\ lastCall.result = "AUTH2"
  /\ ocpiToken = "TAG1"
  /\ now = 0
  /\ chargingStation.remoteAuthorizations =
       << [tagId |-> "TAG1", id |-> "AUTH1", timestamp |-> 0 - AuthorizationWindow],
          [tagId |-> "TAG1", id |-> "AUTH2", timestamp |-> 0] >>

\* C26: after a remote authorize call, authorizeToken has returned an id
\* only if the response was a 200 whose data says ALLOWED and carries a
\* non-empty authorization id, and then that id; a response that is not
\* ALLOWED ends with the error 'Authorization rejected'; an ALLOWED response
\* without id, a response without data and a response without body end with
\* other errors; no id is returned in any of these cases.
C26_AuthorizeResponse ==
  (lastCall.name = "authorizeToken" /\ lastCall.calls # <<>>) =>
    LET call == lastCall.calls[1]
        info == call.data
        hasInfo == call.answer = "200" /\ info # NoInfo
        allowed == IF hasInfo THEN info.allowed = "ALLOWED" ELSE FALSE
        allowedWithId == IF allowed THEN info.authorization_id # "" ELSE FALSE
    IN IF allowedWithId
       THEN lastCall.error = "" /\ lastCall.result = info.authorization_id
       ELSE /\ lastCall.error # ""
            /\ lastCall.result = "none"
            /\ (lastCall.message = "Authorization rejected") = (hasInfo /\ ~allowed)
            /\ (hasInfo /\ allowed) =>
                 lastCall.message = "Authorization allowed without 'authorization_id'"
            /\ (call.answer = "200" /\ ~hasInfo) =>
                 lastCall.message = "Invalid response from Post Authorize"

\* The partner answered NOT_ALLOWED, with an authorization id: the call
\* ended with 'Authorization rejected'.
C26_Witness ==
  /\ lastCall.name = "authorizeToken"
  /\ lastCall.calls # <<>>
  /\ lastCall.calls[1].data = [allowed |-> "NOT_ALLOWED", authorization_id |-> "AUTH2"]
  /\ lastCall.message = "Authorization rejected"
  /\ lastCall.result = "none"

\* The operations tied to one user action.
UserOperations ==
  {"authorizeToken", "startSession", "updateSession", "stopSession", "postCdr"}

\* C27: authorizeToken, startSession, updateSession, stopSession and postCdr
\* never return normally after their remote call met a transport failure or
\* a status outside 2xx: the call ends with an error and returns nothing.
C27_RemoteFailureRaised ==
  (/\ lastCall.name \in UserOperations
   /\ \E k \in 1..Len(lastCall.calls) : lastCall.calls[k].answer = "error") =>
    /\ lastCall.error # ""
    /\ lastCall.result = "none"

\* The PUT of startSession failed: startSession threw and the transaction
\* has no session.
C27_Witness ==
  /\ lastCall.name = "startSession"
  /\ lastCall.calls # <<>>
  /\ lastCall.calls[1].answer = "error"
  /\ lastCall.error = "RemoteProtocolError"
  /\ ~HasSession(transaction)

----------------------------------------------------------------------------
(* Properties of the sweeps and of triggerJobs *)

\* C21 (as claimed), for sendEVSEStatuses: a failed PATCH never aborts the
\* sweep, so a run that leaves the loops after a failed PATCH has counted
\* every EVSE of the tree, holds the charge points of the failed PATCH calls
\* in its failure list, and goes on to the save with success + failure <=
\* total.
C21_FailureNeverAborts ==
  [][\A i \in Instances :
       (/\ pc[i] = "locations" /\ pc'[i] # "locations"
        /\ \E c \in 1..Len(patchLog'[i]) : ~patchLog'[i][c].ok) =>
         LET sendResult == job'[i].sendResult
         IN /\ pc'[i] = "save"
            /\ sendResult.total = NbEvses
            /\ FailedChargeBoxes(patchLog'[i]) = Range(sendResult.chargeBoxIDsInFailure)
            /\ sendResult.success + sendResult.failure <= sendResult.total]_vars

Occurrences(list, x) == Cardinality({k \in 1..Len(list) : list[k] = x})

\* C22: a run of checkSessions counts every transaction of its sweep in
\* total; for one that has not stopped it calls no check and sends no
\* request, puts its id in neither list and leaves its session-checked
\* timestamp unset; for each stopped one it calls checkSession exactly once,
\* and success + failure is the number of stopped ones.
C22_RunningTransactionsSkipped ==
  [][(/\ lastJob'.name = "checkSessions"
      /\ (lastJob.name = "checkSessions" => lastJob' # lastJob)) =>
       LET swept == SessionNotChecked(transactions)
           result == lastJob'.result
           stopped == {n \in 1..Len(swept) : transactions[swept[n]].stopped}
       IN /\ result.total = Len(swept)
          /\ result.success + result.failure = Cardinality(stopped)
          /\ \A n \in 1..Len(swept) :
               LET id == swept[n]
               IN IF n \in stopped
                  THEN /\ Occurrences(lastJob'.checked, id) = 1
                       /\ Occurrences(result.objectIDsInSuccess, id)
                            + Occurrences(result.objectIDsInFailure, id) = 1
                  ELSE /\ Occurrences(lastJob'.checked, id) = 0
                       /\ Occurrences(lastJob'.requests, id) = 0
                       /\ Occurrences(result.objectIDsInSuccess, id) = 0
                       /\ Occurrences(result.objectIDsInFailure, id) = 0
                       /\ transactions'[id].sessionCheckedOn = Unset]_vars

\* A sweep over a running and a stopped transaction confirmed the stopped
\* one and left the running one alone.
C22_Witness ==
  /\ lastJob.name = "checkSessions"
  /\ Len(transactions) = 2
  /\ ~transactions[1].stopped
  /\ transactions[1].sessionCheckedOn = Unset
  /\ transactions[2].sessionCheckedOn # Unset
  /\ lastJob.result.total = 2
  /\ lastJob.result.success = 1
  /\ lastJob.result.failure = 0
  /\ lastJob.checked = << 2 >>

\* The four jobs of triggerJobs, in order.
ExpectedJobs ==
  << [job |-> "tokens", call |-> [method |-> "pullTokens", argument |-> "false"]],
     [job |-> "locations", call |-> [method |-> "sendEVSEStatuses", argument |-> "default"]],
     [job |-> "cdrs", call |-> [method |-> "checkCdrs", argument |-> "none"]],
     [job |-> "sessions", call |-> [method |-> "checkSessions", argument |-> "none"]] >>

\* C24: the jobs of a run of triggerJobs are called one after the other in
\* the order token pull (not partial), status broadcast (all EVSEs), CDR
\* sweep, session sweep, each one only after the one before has returned; a
\* run that returns has called exactly these four and returns what each of
\* them returned.
C24_JobsInSequence ==
  /\ [](/\ Len(trigger.events) <= 2 * Len(ExpectedJobs)
        /\ \A k \in 1..Len(trigger.events) :
             LET event == trigger.events[k]
                 expected == ExpectedJobs[(k + 1) \div 2]
             IN /\ event.job = expected.job
                /\ event.call = expected.call
                /\ (k % 2 = 1) => event.kind = "call"
                /\ (k % 2 = 0) => event.kind \in {"return", "throw"}
                /\ (event.kind = "throw") => k = Len(trigger.events))
  /\ [](trigger.pc = "returned" =>
          /\ Len(trigger.events) = 2 * Len(ExpectedJobs)
          /\ [k \in 1..Len(trigger.results) |-> trigger.results[k].job] =
               << "tokens", "locations", "cdrs", "sessions" >>
          /\ trigger.results[1].result = tokenResult
          /\ requests[1].query.date_from = Unset
          /\ trigger.results[2].result.total = NbEvses
          /\ trigger.results[2].result.success + trigger.results[2].result.failure = NbEvses
          /\ dbEndpoint.lastPatchJobResult = LastPatchJobResult(trigger.results[2].result)
          /\ trigger.results[3].result.total <= Len(transactions)
          /\ lastJob.name = "checkSessions"
          /\ trigger.results[4].result = lastJob.result)

\* A run of triggerJobs over two transactions has returned its four results;
\* the token pull met a token whose upsert failed.
C24_Witness ==
  /\ trigger.pc = "returned"
  /\ Len(trigger.results) = 4
  /\ trigger.results[1].result.failure = 1
  /\ trigger.results[2].result.failure > 0
  /\ Len(transactions) = 2
  /\ trigger.results[4].result.total = 2

----------------------------------------------------------------------------
(* Properties of failed session calls *)

\* The last call was an updateSession or stopSession whose request was sent
\* and which ended with an error.
RequestFailed(name) ==
  /\ lastCall.name = name
  /\ lastCall.calls # <<>>
  /\ lastCall.error # ""

\* C31: updateSession and stopSession assign the new values to the local
\* session before the request is sent, and keep them when the request fails:
\* after a failed updateSession the local session is ACTIVE with the values
\* of the PATCH body, after a failed stopSession it is COMPLETED and equal to
\* the body of the PUT, while a request that was rejected has changed nothing
\* at the partner.
C31_LocalChangeKeptOnFailure ==
  /\ [](RequestFailed("updateSession") =>
          /\ HasSession(transaction)
          /\ transaction.ocpiData.session.status = "ACTIVE"
          /\ lastCall.calls[1].body.status = "ACTIVE"
          /\ \A f \in DOMAIN lastCall.calls[1].body :
               transaction.ocpiData.session[f] = lastCall.calls[1].body[f])
  /\ [](RequestFailed("stopSession") =>
          /\ HasSession(transaction)
          /\ transaction.ocpiData.session.status = "COMPLETED"
          /\ transaction.ocpiData.session.end_datetime = transaction.stop.timestamp
          /\ transaction.ocpiData.session = lastCall.calls[1].body)
  /\ [][(/\ lastCall'.name \in {"updateSession", "stopSession"}
          /\ lastCall'.calls # <<>>
          /\ lastCall'.calls[1].answer = "error") =>
           /\ lastCall'.error # ""
           /\ remoteSessions' = remoteSessions]_vars

\* An updateSession after a metering sample was rejected: the call threw, the
\* local session is ACTIVE with the new energy, the partner still holds the
\* session as PENDING.
C31_Witness ==
  /\ RequestFailed("updateSession")
  /\ lastCall.calls[1].answer = "error"
  /\ transaction.ocpiData.session.status = "ACTIVE"
  /\ transaction.ocpiData.session.kwh = DivideBy1000(WhPerSample)
  /\ Len(remoteSessions) = 1
  /\ remoteSessions[1].id = transaction.ocpiData.session.id
  /\ remoteSessions[1].status = "PENDING"

SessionOperations == {"updateSession", "stopSession", "postCdr"}

\* C32: a startSession whose PUT failed raises the error and leaves the
\* OCPI data of the transaction and the partner's sessions as they were;
\* and as long as no startSession has put a session on the transaction,
\* updateSession, stopSession and postCdr raise the 'session not started'
\* precondition error without sending a request, also right after a failed
\* startSession.
C32_SessionRecordedAfterPut ==
  /\ [][(lastCall'.name = "startSession" /\ lastCall'.error # "") =>
           /\ lastCall'.calls[1].answer = "error"
           /\ transaction'.ocpiData = transaction.ocpiData
           /\ remoteSessions' = remoteSessions]_vars
  /\ []((~HasSession(transaction) /\ lastCall.name \in SessionOperations) =>
          /\ lastCall.error = "PreconditionError"
          /\ lastCall.message \in {"OCPI Session not started", "Session not started"}
          /\ lastCall.calls = <<>>)
  /\ [][(/\ lastCall.name = "startSession" /\ lastCall.error # ""
          /\ ~HasSession(transaction)
          /\ lastCall'.name \in SessionOperations) =>
           /\ lastCall'.error = "PreconditionError"
           /\ transaction' = transaction
           /\ remoteSessions' = remoteSessions]_vars

\* The only startSession of a stopped transaction with one metering sample
\* failed: the OCPI data are still empty and the partner holds no session.
C32_Witness ==
  /\ lastCall.name = "startSession"
  /\ lastCall.error = "RemoteProtocolError"
  /\ lastCall.calls[1].method = "PUT"
  /\ transaction.ocpiData = [session |-> NoSession, cdr |-> NoCdr, cdrCheckedOn |-> Unset]
  /\ transaction.currentTotalConsumptionWh = WhPerSample
  /\ transaction.stop # NoStop
  /\ remoteSessions = <<>>

----------------------------------------------------------------------------
(* Properties of the CDR sweep against the partner's store *)

IsStored(id) == id \in 1..Len(transactions)

\* C33: in every run of checkCdrs, a transaction whose check answered 3001
\* is resubmitted once, is counted as a failure with its id in
\* objectIDsInFailure, keeps its checked timestamp unset and stays in the
\* sweep; a confirmed transaction has its timestamp set, keeps it, and is
\* neither fetched nor resubmitted by a later run.  And a transaction whose
\* resubmission the partner has accepted is eventually confirmed.
C33_ResubmittedUntilConfirmed ==
  /\ [][(/\ lastJob'.name = "checkCdrs"
          /\ (lastJob.name = "checkCdrs" => lastJob' # lastJob)) =>
           \A id \in 1..Len(transactions) :
             /\ Occurrences(lastJob'.checked, id) <= 1
             /\ Occurrences(lastJob'.requests, id) <= 1
             /\ Occurrences(lastJob'.posts, id) <= 1
             /\ (Occurrences(lastJob'.posts, id) = 1) =>
                  /\ id \notin remoteCdrs
                  /\ Occurrences(lastJob'.requests, id) = 1
                  /\ Occurrences(lastJob'.result.objectIDsInFailure, id) = 1
                  /\ Occurrences(lastJob'.result.objectIDsInSuccess, id) = 0
                  /\ transactions'[id].cdrCheckedOn = Unset
             /\ (Occurrences(lastJob'.result.objectIDsInSuccess, id) = 1) =>
                  /\ id \in remoteCdrs
                  /\ transactions[id].cdrCheckedOn = Unset
                  /\ transactions'[id].cdrCheckedOn # Unset
             /\ (transactions[id].cdrCheckedOn = Unset) =>
                  Occurrences(lastJob'.checked, id) = 1
             /\ (transactions[id].cdrCheckedOn # Unset) =>
                  /\ Occurrences(lastJob'.checked, id) = 0
                  /\ Occurrences(lastJob'.requests, id) = 0
                  /\ Occurrences(lastJob'.posts, id) = 0
                  /\ transactions'[id] = transactions[id]]_vars
  /\ [][\A id \in 1..Len(transactions) :
          (transactions[id].cdrCheckedOn # Unset) =>
            transactions'[id].cdrCheckedOn = transactions[id].cdrCheckedOn]_vars
  /\ \A id \in 1..MaxTransactions :
       (/\ IsStored(id)
        /\ lastJob.name = "checkCdrs"
        /\ Occurrences(lastJob.posts, id) = 1
        /\ id \in remoteCdrs)
         ~> (IsStored(id) /\ transactions[id].cdrCheckedOn # Unset)

\* The last run resubmitted the CDR of transaction 1, which the partner
\* accepted, and did not fetch the CDR of transaction 2, which an earlier run
\* had confirmed.
C33_Witness ==
  /\ lastJob.name = "checkCdrs"
  /\ Len(transactions) = 2
  /\ lastJob.posts = << 1 >>
  /\ lastJob.checked = << 1 >>
  /\ lastJob.result.objectIDsInFailure = << 1 >>
  /\ lastJob.result.failure = 1
  /\ lastJob.result.total = 1
  /\ transactions[1].cdrCheckedOn = Unset
  /\ 1 \in remoteCdrs
  /\ transactions[2].cdrCheckedOn # Unset

----------------------------------------------------------------------------
(* Properties of a page-level failure of pullTokens *)

\* The calls of updateToken made for the page of request k.
UpsertsOfRequest(k) ==
  {c \in 1..Len(updateTokenCalls) : updateTokenCalls[c].page = requests[k].page}

\* C34: a GET of pullTokens that meets a transport error, a status other
\* than 200 or a body without data ends the run with an error: the step
\* counts no item failure and makes no upsert, no further page is requested
\* and the run never returns a result, and the tokens of the pages fetched
\* before, and only those, have been upserted.
C34_PageFailureAborts ==
  /\ [](pageAnswer \notin {"none", "200"} => pullPc = "failed")
  /\ [][(pullPc = "loop" /\ pullPc' = "failed") =>
          /\ pageAnswer' \in {"204", "nodata", "error"}
          /\ requests' = Append(requests, tokensUrl)
          /\ tokenResult' = tokenResult
          /\ updateTokenCalls' = updateTokenCalls]_vars
  /\ [][pullPc = "failed" =>
          /\ pullPc' = "failed"
          /\ requests' = requests
          /\ tokenResult' = tokenResult
          /\ updateTokenCalls' = updateTokenCalls]_vars
  /\ [](pullPc = "failed" =>
          /\ requests # <<>>
          /\ \A k \in 1..(Len(requests) - 1) :
               Cardinality(UpsertsOfRequest(k)) = Len(PageOf(requests[k]).tokens)
          /\ UpsertsOfRequest(Len(requests)) = {}
          /\ tokenResult.success + tokenResult.failure = Len(updateTokenCalls))

\* The second page came without data: the pull has failed after two
\* requests, the tokens of the first page are upserted and no failure is
\* counted.
C34_Witness ==
  /\ pullPc = "failed"
  /\ pageAnswer = "nodata"
  /\ Len(requests) = 2
  /\ Len(updateTokenCalls) = MaxTokens
  /\ tokenResult.success = MaxTokens
  /\ tokenResult.failure = 0

====
